---- MODULE Spec2Model ----
(***************************************************************************)
(* GetSourceList (pkgs/utils/get_source_list.go): a directory scan that    *)
(* walks a tree with filepath.WalkDir, prunes .git directories and filters *)
(* the remaining entries by hidden-file policy, extension and ignore rules.*)
(*                                                                         *)
(* Strings are sequences of one-character strings, so that HasPrefix, Ext, *)
(* Base, Join, Rel and the pattern matcher are computed character by       *)
(* character as the code computes them.  The file system is a small tree   *)
(* chosen in Init; a caller makes the calls of ScanIds one after another.  *)
(***************************************************************************)
EXTENDS Naturals, Sequences, FiniteSets, TLC

VARIABLES
    fs,         \* the file system: root's name and kind, the entries below it, the custom ignore file
    dir,        \* the dir argument of the calls (a path string)
    options,    \* options[s]: the options argument of call s (nil or a GetSourceListOptions)
    pc,         \* pc[s]: position of call s
    opts,       \* opts[s]: the local `options` after the nil default
    gitIgnore,  \* gitIgnore[s]: nil or the compiled pattern list
    files,      \* files[s]: the slice being collected / returned
    filesNil,   \* filesNil[s]: whether that slice is the nil slice
    err,        \* err[s]: the error returned
    todo,       \* todo[s]: entries WalkDir still has to visit, in visiting order
    visited     \* visited[s]: the entries the callback was called on (history)

vars == <<fs, dir, options, pc, opts, gitIgnore, files, filesNil, err, todo, visited>>

\* Largest number of entries below the root in the trees Init enumerates.
MaxNodes == 3
\* The largest number of lines in an ignore file that is drawn line by line.
MaxRules == 2

ScanIds == {1, 2}

-----------------------------------------------------------------------------
(* Strings *)

Slash == "/"
Dot == "."
Star == "*"
Question == "?"
Bang == "!"
Hash == "#"
Space == " "
BracketOpen == "["
BracketClose == "]"

DotGit == <<".", "g", "i", "t">>
DotGitignore == <<".", "g", "i", "t", "i", "g", "n", "o", "r", "e">>
EmptyStr == <<>>

\* strings.HasPrefix
HasPrefix(s, p) == Len(s) >= Len(p) /\ SubSeq(s, 1, Len(p)) = p

\* strings.HasSuffix
HasSuffix(s, p) == Len(s) >= Len(p) /\ SubSeq(s, Len(s) - Len(p) + 1, Len(s)) = p

\* Index of the last occurrence of character c in s, 0 if none.
RECURSIVE LastIndexFrom(_, _, _)
LastIndexFrom(s, c, i) ==
    IF i = 0 THEN 0
    ELSE IF s[i] = c THEN i
    ELSE LastIndexFrom(s, c, i - 1)

LastIndex(s, c) == LastIndexFrom(s, c, Len(s))

\* strings.Split(s, "/")
RECURSIVE SplitFrom(_, _, _)
SplitFrom(s, i, cur) ==
    IF i > Len(s) THEN <<cur>>
    ELSE IF s[i] = Slash THEN <<cur>> \o SplitFrom(s, i + 1, <<>>)
    ELSE SplitFrom(s, i + 1, Append(cur, s[i]))

Split(s) == SplitFrom(s, 1, <<>>)

\* filepath.Ext: the suffix beginning at the final dot in the final element
\* of path; empty if there is no dot.
RECURSIVE ExtFrom(_, _)
ExtFrom(path, i) ==
    IF i = 0 \/ path[i] = Slash THEN EmptyStr
    ELSE IF path[i] = Dot THEN SubSeq(path, i, Len(path))
    ELSE ExtFrom(path, i - 1)

Ext(path) == ExtFrom(path, Len(path))

\* filepath.Base for the paths of the model (no trailing slash): the last element.
Base(path) ==
    IF path = EmptyStr THEN <<Dot>>
    ELSE SubSeq(path, LastIndex(path, Slash) + 1, Len(path))

\* filepath.Join(path, name): joins with a slash and cleans the result, so
\* that joining onto "." gives the bare name.
Join(path, name) ==
    IF path = <<Dot>> THEN name ELSE path \o <<Slash>> \o name

\* filepath.Rel(base, target) for clean relative paths without "..": "." for
\* base itself, the part of target after base when target lies below base,
\* and an error otherwise (the result would need "..", which the walk never
\* produces: every path it reports is Join(dir, ...)).
Rel(base, target) ==
    IF target = base THEN [err |-> "nil", path |-> <<Dot>>]
    ELSE IF base = <<Dot>> THEN [err |-> "nil", path |-> target]
    ELSE IF HasPrefix(target, base \o <<Slash>>)
         THEN [err |-> "nil", path |-> SubSeq(target, Len(base) + 2, Len(target))]
    ELSE [err |-> "EREL", path |-> EmptyStr]

\* filepath.ToSlash: the separator of the modelled platform is already "/".
ToSlash(path) == path

\* The byte of a character that occurs in names (ASCII).
Rank(c) ==
    CASE c = " " -> 32 [] c = "!" -> 33 [] c = "#" -> 35 [] c = "*" -> 42
      [] c = "." -> 46 [] c = "/" -> 47 [] c = "?" -> 63
      [] c = "G" -> 71 [] c = "O" -> 79 [] c = "_" -> 95
      [] c = "a" -> 97 [] c = "b" -> 98 [] c = "c" -> 99 [] c = "d" -> 100
      [] c = "e" -> 101 [] c = "f" -> 102 [] c = "g" -> 103 [] c = "i" -> 105
      [] c = "j" -> 106 [] c = "k" -> 107 [] c = "l" -> 108 [] c = "m" -> 109
      [] c = "n" -> 110 [] c = "o" -> 111 [] c = "p" -> 112 [] c = "r" -> 114
      [] c = "s" -> 115 [] c = "t" -> 116 [] c = "u" -> 117 [] c = "v" -> 118
      [] c = "x" -> 120
      [] OTHER -> 127

\* a < b in the byte-wise order of strings.
RECURSIVE StrLess(_, _)
StrLess(a, b) ==
    IF b = <<>> THEN FALSE
    ELSE IF a = <<>> THEN TRUE
    ELSE IF Head(a) = Head(b) THEN StrLess(Tail(a), Tail(b))
    ELSE Rank(Head(a)) < Rank(Head(b))

-----------------------------------------------------------------------------
(* The file system *)

\* Entry names of the modelled trees.
AGo == <<"a", ".", "g", "o">>
BUpperGo == <<"b", ".", "G", "O">>
CGo == <<"c", ".", "g", "o">>
DGo == <<"d", ".", "g", "o">>
LnGo == <<"l", "n", ".", "g", "o">>
DotEnv == <<".", "e", "n", "v">>
Sub == <<"s", "u", "b">>
Mk == <<"m", "k">>
RootR == <<"r">>
NoSuchDir == <<"n", "x">>
CustomName == <<"c", ".", "i", "g", "n">>
ATxt == <<"a", ".", "t", "x", "t">>
BGo == <<"b", ".", "g", "o">>
DotSecret == <<".", "s", "e", "c", "r", "e", "t">>
NodeModules == <<"n", "o", "d", "e", "_", "m", "o", "d", "u", "l", "e", "s">>
PkgJson == <<"p", "k", "g", ".", "j", "s", "o", "n">>
Build == <<"b", "u", "i", "l", "d">>
OutBin == <<"o", "u", "t", ".", "b", "i", "n">>
DotConfig == <<".", "c", "o", "n", "f", "i", "g">>
AppGo == <<"a", "p", "p", ".", "g", "o">>

\* Lines of ignore files.
LineStarGo == <<"*", ".", "g", "o">>
LineNotLnGo == <<"!">> \o LnGo
LineSubDir == Sub \o <<Slash>>
LineStarUpperGo == <<"*", ".", "G", "O">>
LineComment == <<"#", "x">>
LineNodeModules == NodeModules \o <<Slash>>
LineBuild == Build \o <<Slash>>
LineStarBin == <<"*", ".", "b", "i", "n">>
LineSecret == DotSecret

Node(rel, kind, lines) == [rel |-> rel, kind |-> kind, lines |-> lines]

\* The entries a tree of the model may hold below its root.  A "baddir" is a
\* directory whose listing fails (permission denied); "lines" is the content
\* of a regular file, read only when the file is used as an ignore file.
Candidates ==
    { Node(<<DotGit>>, "dir", <<>>),
      Node(<<DotGit, CGo>>, "file", <<>>),
      Node(<<AGo>>, "file", <<>>),
      Node(<<LnGo>>, "symlink", <<>>),
      Node(<<DotEnv>>, "file", <<>>),
      Node(<<Sub>>, "dir", <<>>),
      Node(<<Sub>>, "baddir", <<>>),
      Node(<<Sub, BUpperGo>>, "file", <<>>),
      Node(<<Mk>>, "file", <<>>),
      Node(<<Sub, DotGit>>, "dir", <<>>),
      Node(<<Sub, DotGit, DGo>>, "file", <<>>),
      Node(<<DotGitignore>>, "file", <<LineStarGo, LineNotLnGo, LineSubDir>>),
      Node(<<DotGitignore>>, "dir", <<>>) }

\* Content of the custom ignore file c.ign (a sibling of the root).
CustomLines == <<LineComment, EmptyStr, LineStarUpperGo>>

IsDirKind(k) == k \in {"dir", "baddir"}

Parent(rel) == SubSeq(rel, 1, Len(rel) - 1)

\* A tree: no two entries with one path, every entry's parent is a directory
\* of the tree (readable, since it has children) or the root.
WellFormed(t) ==
    /\ \A m, n \in t : m.rel = n.rel => m = n
    /\ \A n \in t : Len(n.rel) > 1 =>
          \E m \in t : m.rel = Parent(n.rel) /\ m.kind = "dir"

Trees == {t \in SUBSET Candidates : Cardinality(t) <= MaxNodes /\ WellFormed(t)}

\* The file systems of the model.  cwd tells whether the process runs in the
\* root directory itself ("root") or in its parent ("parent").
FileSystems ==
    { [rootName |-> rn, rootKind |-> rk, cwd |-> c, nodes |-> t] :
        rn \in {RootR, DotGit}, rk \in {"dir", "baddir", "file", "symlink"},
        c \in {"root", "parent"}, t \in Trees }

ValidFS(f) ==
    /\ f.rootKind # "dir" => f.nodes = {}
    /\ f.cwd = "root" => IsDirKind(f.rootKind)

\* The tree of the worked example: a.go, a.txt, sub/b.go, .secret,
\* node_modules/pkg.json, build/out.bin and the ignore file.
ExampleNodes ==
    { Node(<<AGo>>, "file", <<>>),
      Node(<<ATxt>>, "file", <<>>),
      Node(<<Sub>>, "dir", <<>>),
      Node(<<Sub, BGo>>, "file", <<>>),
      Node(<<DotSecret>>, "file", <<>>),
      Node(<<NodeModules>>, "dir", <<>>),
      Node(<<NodeModules, PkgJson>>, "file", <<>>),
      Node(<<Build>>, "dir", <<>>),
      Node(<<Build, OutBin>>, "file", <<>>),
      Node(<<DotGitignore>>, "file", <<LineNodeModules, LineBuild, LineStarBin, LineSecret>>) }

\* The same tree with a directory .config that holds app.go.
HiddenDirNodes ==
    ExampleNodes \cup { Node(<<DotConfig>>, "dir", <<>>),
                        Node(<<DotConfig, AppGo>>, "file", <<>>) }

\* The example trees as a root named r or build, seen from the root itself
\* or from its parent.
ExampleFileSystems ==
    { [rootName |-> rn, rootKind |-> "dir", cwd |-> c, nodes |-> t] :
        rn \in {RootR, Build}, c \in {"root", "parent"}, t \in {ExampleNodes, HiddenDirNodes} }

\* The lines an ignore file is drawn from where the rules themselves are
\* under study: patterns with * and with ? alone, directory rules, a bare
\* name, a bare path and negated rules.
LineNotSubDir == <<Bang>> \o LineSubDir
LineMkDir == Mk \o <<Slash>>
LineOneGo == <<Question, ".", "g", "o">>
LineSubBGo == Sub \o <<Slash>> \o BGo
RuleLines ==
    {LineStarGo, LineOneGo, LineNotLnGo, LineSubDir, LineNotSubDir, LineMkDir, Sub, LineSubBGo}

\* A rule line between a comment, an empty line, a blank line and an
\* indented comment, followed by the same line with blanks around it.
LineBlank == <<Space, Space>>
LineIndentedComment == <<Space>> \o LineComment
Commented(line) ==
    <<LineComment, EmptyStr, line, LineBlank, LineIndentedComment, <<Space>> \o line \o <<Space>>>>

\* The contents of the ignore file: every sequence of up to MaxRules rule
\* lines, and every rule line among comments and blank lines.
RuleSets ==
    UNION { [1..k -> RuleLines] : k \in 0..MaxRules } \cup { Commented(l) : l \in RuleLines }

\* The entries next to the ignore file in these trees.
RulesCandidates ==
    { Node(<<AGo>>, "file", <<>>),
      Node(<<LnGo>>, "symlink", <<>>),
      Node(<<Sub>>, "dir", <<>>),
      Node(<<Sub, BGo>>, "file", <<>>),
      Node(<<Mk>>, "file", <<>>) }

\* The root r seen from its parent, holding .gitignore and fewer than
\* MaxNodes other entries.
RulesFileSystems ==
    { [rootName |-> RootR, rootKind |-> "dir", cwd |-> "parent",
       nodes |-> t \cup {Node(<<DotGitignore>>, "file", lines)}] :
        t \in {u \in SUBSET RulesCandidates : Cardinality(u) < MaxNodes /\ WellFormed(u)},
        lines \in RuleSets }

\* The entries of the trees in which directories are unreadable or hold
\* excluded files only: .git, sub and .config, each readable or not, and
\* an ignore file that excludes sub/, or sub/ and itself.
PruneCandidates ==
    { Node(<<DotGit>>, "dir", <<>>),
      Node(<<DotGit>>, "baddir", <<>>),
      Node(<<DotGit, CGo>>, "file", <<>>),
      Node(<<Sub>>, "dir", <<>>),
      Node(<<Sub>>, "baddir", <<>>),
      Node(<<Sub, BUpperGo>>, "file", <<>>),
      Node(<<DotConfig>>, "dir", <<>>),
      Node(<<DotConfig>>, "baddir", <<>>),
      Node(<<DotConfig, AppGo>>, "file", <<>>),
      Node(<<AGo>>, "file", <<>>),
      Node(<<DotEnv>>, "file", <<>>),
      Node(<<DotGitignore>>, "file", <<LineSubDir>>),
      Node(<<DotGitignore>>, "file", <<LineSubDir, DotGitignore>>) }

\* These trees as the root r, seen from r itself or from its parent.
PruneFileSystems ==
    { [rootName |-> RootR, rootKind |-> "dir", cwd |-> c, nodes |-> t] :
        c \in {"root", "parent"},
        t \in {u \in SUBSET PruneCandidates : Cardinality(u) <= MaxNodes /\ WellFormed(u)} }

\* What a path names: [err, kind, rel, lines].  rel is the place below the
\* root (the handle by which the directory is listed later).
Found(kind, rel, lines) == [err |-> "nil", kind |-> kind, rel |-> rel, lines |-> lines]
NotFound(e) == [err |-> e, kind |-> "none", rel |-> <<>>, lines |-> <<>>]

\* The entry at place rel below the root.
NodeAt(f, rel) ==
    IF rel = <<>> THEN Found(f.rootKind, <<>>, <<>>)
    ELSE IF \E n \in f.nodes : n.rel = rel
         THEN LET n == CHOOSE n \in f.nodes : n.rel = rel
              IN  Found(n.kind, rel, n.lines)
    ELSE IF \/ ~IsDirKind(f.rootKind)
            \/ \E n \in f.nodes : /\ Len(n.rel) < Len(rel)
                                  /\ n.rel = SubSeq(rel, 1, Len(n.rel))
                                  /\ ~IsDirKind(n.kind)
         THEN NotFound("ENOTDIR")
    ELSE IF \/ f.rootKind = "baddir"
            \/ \E n \in f.nodes : /\ Len(n.rel) < Len(rel)
                                  /\ n.rel = SubSeq(rel, 1, Len(n.rel))
                                  /\ n.kind = "baddir"
         THEN NotFound("EACCES")
    ELSE NotFound("ENOENT")

\* Path resolution without following a final symbolic link (os.Lstat).
Resolve(f, path) ==
    LET segs == SelectSeq(Split(path), LAMBDA x : x # EmptyStr /\ x # <<Dot>>)
    IN  IF path = EmptyStr THEN NotFound("ENOENT")
        ELSE IF f.cwd = "root" THEN NodeAt(f, segs)
        ELSE IF segs = <<>> THEN Found("dir", <<>>, <<>>)
        ELSE IF Head(segs) = f.rootName THEN NodeAt(f, Tail(segs))
        ELSE IF segs = <<CustomName>> THEN Found("file", <<>>, CustomLines)
        ELSE NotFound("ENOENT")

Lstat(f, path) == Resolve(f, path)

\* Reading a whole file: [err, lines].  A directory cannot be read as a file;
\* the symbolic links of the model dangle.
ReadFile(f, path) ==
    LET r == Resolve(f, path)
    IN  IF r.err # "nil" THEN [err |-> r.err, lines |-> <<>>]
        ELSE IF IsDirKind(r.kind) THEN [err |-> "EISDIR", lines |-> <<>>]
        ELSE IF r.kind = "symlink" THEN [err |-> "ENOENT", lines |-> <<>>]
        ELSE [err |-> "nil", lines |-> r.lines]

Children(f, rel) == {n \in f.nodes : Len(n.rel) = Len(rel) + 1 /\ Parent(n.rel) = rel}

Last(s) == s[Len(s)]

\* The entries of S in increasing order of their names.
RECURSIVE SortByName(_)
SortByName(S) ==
    IF S = {} THEN <<>>
    ELSE LET m == CHOOSE m \in S : \A n \in S : n = m \/ StrLess(Last(m.rel), Last(n.rel))
         IN  <<m>> \o SortByName(S \ {m})

\* os.ReadDir: the entries of the directory sorted by file name, or an error.
ReadDir(f, rel) ==
    LET d == NodeAt(f, rel)
    IN  IF d.kind = "baddir" THEN [err |-> "EACCES", entries |-> <<>>]
        ELSE [err |-> "nil", entries |-> SortByName(Children(f, rel))]

-----------------------------------------------------------------------------
(* The ignore-pattern matcher the scan calls (go-gitignore), for ignore    *)
(* lines made of literal characters and "*", with an optional leading "!"  *)
(* and an optional trailing "/" and no other "/".                          *)

\* One compiled line: the regular expression ^(|.*/)GLOB(|/.*)$, or
\* ^(|.*/)GLOB/(|.*)$ for a line with a trailing slash, where "*" of the
\* line stands for [^/]* and every other character for itself.
Pattern(negate, dirOnly, glob) == [negate |-> negate, dirOnly |-> dirOnly, glob |-> glob]

\* The pattern of one line; comment lines and empty lines give none.
LinePatterns(line) ==
    IF line = EmptyStr \/ HasPrefix(line, <<"#">>) THEN <<>>
    ELSE LET negate == Head(line) = "!"
             body == IF negate THEN Tail(line) ELSE line
         IN  IF body = EmptyStr THEN <<>>
             ELSE IF HasSuffix(body, <<Slash>>)
                  THEN <<Pattern(negate, TRUE, SubSeq(body, 1, Len(body) - 1))>>
             ELSE <<Pattern(negate, FALSE, body)>>

\* ignore.CompileIgnoreLines: the patterns of the lines, in order.
RECURSIVE CompileIgnoreLines(_)
CompileIgnoreLines(lines) ==
    IF lines = <<>> THEN <<>>
    ELSE LinePatterns(Head(lines)) \o CompileIgnoreLines(Tail(lines))

\* ignore.CompileIgnoreFile: [err, patterns].
CompileIgnoreFile(f, path) ==
    LET r == ReadFile(f, path)
    IN  IF r.err # "nil" THEN [err |-> r.err, patterns |-> <<>>]
        ELSE [err |-> "nil", patterns |-> CompileIgnoreLines(r.lines)]

\* glob, with "*" for any run of characters, against one path segment.
RECURSIVE GlobMatch(_, _)
GlobMatch(glob, seg) ==
    IF glob = <<>> THEN seg = <<>>
    ELSE IF Head(glob) = Star
         THEN GlobMatch(Tail(glob), seg) \/ (seg # <<>> /\ GlobMatch(glob, Tail(seg)))
    ELSE seg # <<>> /\ Head(seg) = Head(glob) /\ GlobMatch(Tail(glob), Tail(seg))

\* The pattern's regular expression matches path f: some segment of f
\* matches the glob, and a directory pattern needs a segment that is
\* followed by a slash.
PatternMatches(pat, f) ==
    LET segs == Split(f)
    IN  \E i \in 1..Len(segs) :
            /\ GlobMatch(pat.glob, segs[i])
            /\ pat.dirOnly => i < Len(segs)

\* GitIgnore.MatchesPath: the patterns are tried in order; a matching plain
\* pattern sets the answer, a matching negated pattern resets it.
RECURSIVE MatchesFrom(_, _, _)
MatchesFrom(patterns, f, matchesPath) ==
    IF patterns = <<>> THEN matchesPath
    ELSE LET ip == Head(patterns)
             m  == IF PatternMatches(ip, f)
                   THEN (IF ~ip.negate THEN TRUE ELSE FALSE)
                   ELSE matchesPath
         IN  MatchesFrom(Tail(patterns), f, m)

MatchesPath(patterns, f) == MatchesFrom(patterns, f, FALSE)

-----------------------------------------------------------------------------
(* GetSourceList *)

\* A *GetSourceListOptions: nil, or a pointer to the four fields.
Options(respect, hidden, exts, gpath) ==
    [isNil |-> FALSE, RespectGitignore |-> respect, IncludeHidden |-> hidden,
     Extensions |-> exts, GitignoreFilePath |-> gpath, IncludePatterns |-> <<>>]

NilOptions ==
    [isNil |-> TRUE, RespectGitignore |-> FALSE, IncludeHidden |-> FALSE,
     Extensions |-> <<>>, GitignoreFilePath |-> EmptyStr, IncludePatterns |-> <<>>]

\* The options of the GetSourceList that has IncludePatterns in the place of
\* Extensions.
PatternOptions(respect, hidden, patterns, gpath) ==
    [isNil |-> FALSE, RespectGitignore |-> respect, IncludeHidden |-> hidden,
     Extensions |-> <<>>, GitignoreFilePath |-> gpath, IncludePatterns |-> patterns]

ExtGo == <<".", "g", "o">>
ExtJs == <<".", "j", "s">>

ExtLists == {<<>>, <<ExtJs, ExtGo>>}

IgnorePaths == {EmptyStr, CustomName}

OptionValues ==
    {NilOptions} \cup
    { Options(r, h, e, g) : r \in BOOLEAN, h \in BOOLEAN, e \in ExtLists, g \in IgnorePaths }

\* Include patterns of the model.
PatternStarGo == <<Star, ".", "g", "o">>
PatternOneGo == <<Question, ".", "g", "o">>
PatternMOne == <<"m", Question>>
PatternStarUpperGo == <<Star, ".", "G", "O">>
PatternBad == <<Star, BracketOpen, "g", "o">>

PatternLists ==
    {<<>>, <<PatternStarGo>>, <<PatternOneGo>>, <<PatternMOne, PatternStarUpperGo>>,
     <<PatternBad>>, <<PatternBad, PatternOneGo>>}

PatternOptionValues ==
    {NilOptions} \cup
    { PatternOptions(r, h, p, g) : r \in BOOLEAN, h \in BOOLEAN, p \in PatternLists, g \in IgnorePaths }

\* The options used when the argument is nil.
DefaultOptions == Options(TRUE, FALSE, <<>>, EmptyStr)

\* Mutant of EffectiveOptions: the nil default lets hidden files through.
EffectiveOptionsHidden(o) == IF o.isNil THEN Options(TRUE, TRUE, <<>>, EmptyStr) ELSE o

\* The local `options` after the nil check.
EffectiveOptions(o) == IF o.isNil THEN DefaultOptions ELSE o

\* Mutant of GitignorePath: the custom path is not looked at.
GitignorePathAlwaysDefault(d, o) == Join(d, DotGitignore)

\* The path of the ignore file the call loads.
GitignorePath(d, o) ==
    IF o.GitignoreFilePath # EmptyStr THEN o.GitignoreFilePath
    ELSE Join(d, DotGitignore)

\* The value of gitIgnore after the loading block: nil when ignore rules are
\* not respected, else the compiled file, or no pattern when it cannot be read.
NoGitIgnore == [isNil |-> TRUE, patterns |-> <<>>]

\* Mutant of LoadGitIgnore: the ignore file is loaded whatever
\* RespectGitignore says.
LoadGitIgnoreAlways(f, d, o) ==
    LET c == CompileIgnoreFile(f, GitignorePath(d, o))
    IN  IF c.err # "nil" THEN [isNil |-> FALSE, patterns |-> CompileIgnoreLines(<<>>)]
        ELSE [isNil |-> FALSE, patterns |-> c.patterns]

\* Mutant of LoadGitIgnore: when the ignore file cannot be read, the
\* .gitignore of the target directory is used in its place.
LoadGitIgnoreFallback(f, d, o) ==
    IF o.RespectGitignore
    THEN LET c == CompileIgnoreFile(f, GitignorePath(d, o))
             c2 == CompileIgnoreFile(f, Join(d, DotGitignore))
         IN  IF c.err # "nil" THEN [isNil |-> FALSE, patterns |-> c2.patterns]
             ELSE [isNil |-> FALSE, patterns |-> c.patterns]
    ELSE NoGitIgnore

LoadGitIgnore(f, d, o) ==
    IF o.RespectGitignore
    THEN LET c == CompileIgnoreFile(f, GitignorePath(d, o))
         IN  IF c.err # "nil" THEN [isNil |-> FALSE, patterns |-> CompileIgnoreLines(<<>>)]
             ELSE [isNil |-> FALSE, patterns |-> c.patterns]
    ELSE NoGitIgnore

\* contains(slice, item)
Contains(slice, item) == \E i \in 1..Len(slice) : slice[i] = item

\* Mutant of SkipHidden: the ignore file is skipped whatever the options.
SkipHiddenOrIgnoreFile(o, name) ==
    \/ ~o.IncludeHidden /\ HasPrefix(name, <<Dot>>)
    \/ name = DotGitignore

\* Mutant of SkipHidden: the test of IncludeHidden is inverted.
SkipHiddenInverted(o, name) == o.IncludeHidden /\ HasPrefix(name, <<Dot>>)

\* The hidden-file check of the callback: TRUE when the entry is skipped.
SkipHidden(o, name) == ~o.IncludeHidden /\ HasPrefix(name, <<Dot>>)

\* Mutant of SkipExtension: the membership test is inverted.
SkipExtensionInverted(o, path) ==
    Len(o.Extensions) > 0 /\ Contains(o.Extensions, Ext(path))

\* The extension check of the callback: TRUE when the entry is skipped.
SkipExtension(o, path) ==
    Len(o.Extensions) > 0 /\ ~Contains(o.Extensions, Ext(path))

\* The ignore check of the callback: "skip", "keep", or "error" when the
\* relative path cannot be computed.
IgnoreCheck(gi, d, path) ==
    IF gi.isNil THEN "keep"
    ELSE LET r == Rel(d, path)
         IN  IF r.err # "nil" THEN "error"
             ELSE IF MatchesPath(gi.patterns, ToSlash(r.path)) THEN "skip"
             ELSE "keep"

\* Mutant of FileDecision: a file whose extension is in the list is taken at
\* once, before the ignore rules are asked.
FileDecisionExtensionFirst(o, gi, d, path, name) ==
    IF SkipHidden(o, name) THEN "skip"
    ELSE IF Len(o.Extensions) > 0 /\ Contains(o.Extensions, Ext(path)) THEN "append"
    ELSE IF SkipExtension(o, path) THEN "skip"
    ELSE IF IgnoreCheck(gi, d, path) = "error" THEN "error"
    ELSE IF IgnoreCheck(gi, d, path) = "skip" THEN "skip"
    ELSE "append"

\* Mutant of FileDecision: the ignore rules are not consulted.
FileDecisionNoIgnore(o, gi, d, path, name) ==
    IF SkipHidden(o, name) THEN "skip"
    ELSE IF SkipExtension(o, path) THEN "skip"
    ELSE "append"

\* What the callback does with an entry that is not a directory.
FileDecision(o, gi, d, path, name) ==
    IF SkipHidden(o, name) THEN "skip"
    ELSE IF SkipExtension(o, path) THEN "skip"
    ELSE IF IgnoreCheck(gi, d, path) = "error" THEN "error"
    ELSE IF IgnoreCheck(gi, d, path) = "skip" THEN "skip"
    ELSE "append"

\* Mutant of CallbackOnError: the callback answers a walk error with SkipDir.
CallbackSkipsOnError(e) == "SkipDir"

\* Mutant of CallbackOnError: the walk error is not looked at, and the
\* callback goes on to the entry.
CallbackIgnoresError(e) == "nil"

\* The callback's first statement: a walk error is returned as it is.
CallbackOnError(e) == e

\* Mutant of IsSkippedDir: every directory whose name starts with a dot is
\* pruned.
IsSkippedDirHidden(name) == HasPrefix(name, <<Dot>>)

\* Mutant of IsSkippedDir: the name is compared with "git".
IsSkippedDirNoDot(name) == name = <<"g", "i", "t">>

\* What the callback returns for a directory entry: SkipDir for .git.
IsSkippedDir(name) == name = DotGit

\* What WalkDir returns when the callback has returned e: SkipDir ends the
\* walk of the entry without an error.
WalkDirResult(e) == IF e = "SkipDir" THEN "nil" ELSE e

\* Mutant of MakeFiles: the slice is declared and not made.
MakeFilesNil == TRUE

\* files := make([]string, 0, 100): nil-ness of the slice the call starts with.
MakeFiles == FALSE

\* Mutant of AppendFile: the path is put in front.
PrependFile(fl, path) == <<path>> \o fl

\* files = append(files, path).
AppendFile(fl, path) == Append(fl, path)

\* Mutant of FilesOf: one slice for all calls (a package-level variable).
FilesShared(s) == 1

\* The slice call s collects into: a local variable of that call.
FilesOf(s) == s

\* The entry WalkDir hands to the callback: its path, its name, its type and
\* its place in the file system.
Entry(path, name, kind, rel) == [path |-> path, name |-> name, kind |-> kind, rel |-> rel]

\* The entries of a listed directory, each with the path Join(path, name).
ChildEntries(path, listing) ==
    [i \in 1..Len(listing) |->
        Entry(Join(path, Last(listing[i].rel)), Last(listing[i].rel),
              listing[i].kind, listing[i].rel)]

-----------------------------------------------------------------------------
(* The GetSourceList that matches ignore rules itself (src/unnamed/part_005) *)

\* strings.Contains(s, c) for a one-character c.
ContainsChar(s, c) == \E i \in DOMAIN s : s[i] = c

\* strings.TrimSuffix
TrimSuffix(s, suffix) ==
    IF HasSuffix(s, suffix) THEN SubSeq(s, 1, Len(s) - Len(suffix)) ELSE s

\* strings.TrimSpace, for lines whose only white space is the blank.
RECURSIVE TrimSpace(_)
TrimSpace(line) ==
    IF line = <<>> THEN line
    ELSE IF Head(line) = Space THEN TrimSpace(Tail(line))
    ELSE IF Last(line) = Space THEN TrimSpace(SubSeq(line, 1, Len(line) - 1))
    ELSE line

\* filepath.Dir for clean paths: all but the last element, "." if there is
\* no other element.
Dir(path) ==
    IF LastIndex(path, Slash) = 0 THEN <<Dot>>
    ELSE IF LastIndex(path, Slash) = 1 THEN <<Slash>>
    ELSE SubSeq(path, 1, LastIndex(path, Slash) - 1)

\* filepath.Match for patterns made of literal characters, "*" (any run of
\* characters other than "/") and "?" (one character other than "/"):
\* whether pattern from position i on matches name from position j on.
RECURSIVE MatchFrom(_, _, _, _)
MatchFrom(pattern, i, name, j) ==
    IF i > Len(pattern) THEN j > Len(name)
    ELSE IF pattern[i] = Star
         THEN \/ MatchFrom(pattern, i + 1, name, j)
              \/ j <= Len(name) /\ name[j] # Slash /\ MatchFrom(pattern, i, name, j + 1)
    ELSE IF pattern[i] = Question
         THEN j <= Len(name) /\ name[j] # Slash /\ MatchFrom(pattern, i + 1, name, j + 1)
    ELSE j <= Len(name) /\ name[j] = pattern[i] /\ MatchFrom(pattern, i + 1, name, j + 1)

\* The pattern is malformed: it opens a character class with "[" that no
\* "]" closes.  (Well-formed character classes are not among the patterns
\* of the model.)
Malformed(pattern) ==
    \E i \in DOMAIN pattern :
        pattern[i] = BracketOpen /\ \A j \in (i + 1)..Len(pattern) : pattern[j] # BracketClose

\* filepath.Match: [matched, err].  A malformed pattern gives no match and
\* ErrBadPattern, whatever the name (releases that look at the pattern
\* only as far as the name goes report nil for some names; matched is
\* false either way, and the callers read err only together with matched).
Match(pattern, name) ==
    IF Malformed(pattern) THEN [matched |-> FALSE, err |-> "ErrBadPattern"]
    ELSE [matched |-> MatchFrom(pattern, 1, name, 1), err |-> "nil"]

\* strings.Join(parts[:k], "/")
RECURSIVE JoinParts(_, _)
JoinParts(parts, k) ==
    IF k = 0 THEN EmptyStr
    ELSE IF k = 1 THEN parts[1]
    ELSE JoinParts(parts, k - 1) \o <<Slash>> \o parts[k]

\* Mutant of LoadGitignoreRules: no rule is loaded.
LoadGitignoreRulesNone(f, d) == <<>>

\* Mutant of LoadGitignoreRules: comment lines are kept as rules.
LoadGitignoreRulesKeepComments(f, d) ==
    LET r == ReadFile(f, Join(d, DotGitignore))
    IN  IF r.err # "nil" THEN <<>>
        ELSE SelectSeq([i \in DOMAIN r.lines |-> TrimSpace(r.lines[i])],
                       LAMBDA line : line # EmptyStr)

\* loadGitignoreRules: the trimmed lines of <dir>/.gitignore that are not
\* empty and no comments; no rules when the file cannot be opened or read.
LoadGitignoreRules(f, d) ==
    LET r == ReadFile(f, Join(d, DotGitignore))
    IN  IF r.err # "nil" THEN <<>>
        ELSE SelectSeq([i \in DOMAIN r.lines |-> TrimSpace(r.lines[i])],
                       LAMBDA line : line # EmptyStr /\ ~HasPrefix(line, <<Hash>>))

\* The loop of matchesGitignoreRule over the parent directories of a path.
RECURSIVE ParentDirMatches(_, _)
ParentDirMatches(rule, d) ==
    IF d = <<Dot>> \/ d = <<Slash>> THEN FALSE
    ELSE Match(rule, Base(d)).matched \/ ParentDirMatches(rule, Dir(d))

\* Mutant of MatchesGitignoreRule: a rule without * and without a trailing
\* slash is compared with the full path only, not with its segments.
MatchesGitignoreRuleFullPathOnly(filePath, rule) ==
    IF HasPrefix(rule, <<Bang>>) THEN FALSE
    ELSE IF HasSuffix(rule, <<Slash>>)
         THEN LET dirRule == TrimSuffix(rule, <<Slash>>)
                  pathParts == Split(filePath)
              IN  \E i \in 1..Len(pathParts) :
                      \/ JoinParts(pathParts, i) = dirRule
                      \/ Base(JoinParts(pathParts, i)) = dirRule
    ELSE \/ rule = filePath
         \/ /\ ContainsChar(rule, Star)
            /\ \/ Match(rule, filePath).matched
               \/ Match(rule, Base(filePath)).matched
               \/ ParentDirMatches(rule, Dir(filePath))
         \/ \E i \in 1..Len(Split(filePath)) :
                ContainsChar(rule, Star) /\ Match(rule, Split(filePath)[i]).matched

\* matchesGitignoreRule
MatchesGitignoreRule(filePath, rule) ==
    IF HasPrefix(rule, <<Bang>>) THEN FALSE
    ELSE IF HasSuffix(rule, <<Slash>>)
         THEN LET dirRule == TrimSuffix(rule, <<Slash>>)
                  pathParts == Split(filePath)
              IN  \E i \in 1..Len(pathParts) :
                      \/ JoinParts(pathParts, i) = dirRule
                      \/ Base(JoinParts(pathParts, i)) = dirRule
    ELSE \/ rule = filePath
         \/ /\ ContainsChar(rule, Star)
            /\ \/ Match(rule, filePath).matched
               \/ Match(rule, Base(filePath)).matched
               \/ ParentDirMatches(rule, Dir(filePath))
         \/ \E i \in 1..Len(Split(filePath)) :
                \/ rule = Split(filePath)[i]
                \/ ContainsChar(rule, Star) /\ Match(rule, Split(filePath)[i]).matched

\* The rules applied in order with re-inclusion: a rule with a leading "!"
\* takes a path that an earlier rule excluded back in.
RECURSIVE IsIgnoredFrom(_, _, _)
IsIgnoredFrom(relPath, rules, ignored) ==
    IF rules = <<>> THEN ignored
    ELSE IF HasPrefix(Head(rules), <<Bang>>)
         THEN IsIgnoredFrom(relPath, Tail(rules),
                            ignored /\ ~MatchesGitignoreRule(relPath, Tail(Head(rules))))
    ELSE IsIgnoredFrom(relPath, Tail(rules),
                       ignored \/ MatchesGitignoreRule(relPath, Head(rules)))

\* Mutant of IsIgnored: the rules are matched against the path as the walk
\* reports it, the root's own path included.
IsIgnoredFullPath(filePath, rootDir, rules) ==
    \E i \in DOMAIN rules : MatchesGitignoreRule(ToSlash(filePath), rules[i])

\* Mutant of IsIgnored: the last rule alone decides.
IsIgnoredLastRule(filePath, rootDir, rules) ==
    /\ Rel(rootDir, filePath).err = "nil"
    /\ rules # <<>>
    /\ MatchesGitignoreRule(ToSlash(Rel(rootDir, filePath).path), rules[Len(rules)])

\* Mutant of IsIgnored: negated rules re-include.
IsIgnoredWithNegation(filePath, rootDir, rules) ==
    /\ Rel(rootDir, filePath).err = "nil"
    /\ IsIgnoredFrom(ToSlash(Rel(rootDir, filePath).path), rules, FALSE)

\* isIgnored: some rule matches the path relative to the root.
IsIgnored(filePath, rootDir, rules) ==
    /\ Rel(rootDir, filePath).err = "nil"
    /\ \E i \in DOMAIN rules :
          MatchesGitignoreRule(ToSlash(Rel(rootDir, filePath).path), rules[i])

\* var files []string: the slice starts as the nil slice.
DeclareFiles == TRUE

\* What the callback of this GetSourceList does with an entry that is not
\* a directory.
FileDecisionRules(o, rules, d, path, name) ==
    IF SkipHidden(o, name) THEN "skip"
    ELSE IF SkipExtension(o, path) THEN "skip"
    ELSE IF o.RespectGitignore /\ IsIgnored(path, d, rules) THEN "skip"
    ELSE "append"

-----------------------------------------------------------------------------
(* The GetSourceList with IncludePatterns (src/unnamed/part_004) *)

\* Mutant of EffectivePatterns: no pattern stands in for an empty list.
EffectivePatternsNoDefault(o) == o.IncludePatterns

\* The local includePatterns: the option, or "*" when it is empty.
EffectivePatterns(o) ==
    IF Len(o.IncludePatterns) > 0 THEN o.IncludePatterns ELSE <<(<<Star>>)>>

\* Mutant of MatchesAnyPattern: a pattern that gives an error counts as a
\* match.
MatchesAnyPatternOrError(patterns, fileName) ==
    \E i \in DOMAIN patterns :
        Match(patterns[i], fileName).err # "nil" \/ Match(patterns[i], fileName).matched

\* The loop over includePatterns: some pattern matches the file name
\* without an error.
MatchesAnyPattern(patterns, fileName) ==
    \E i \in DOMAIN patterns :
        Match(patterns[i], fileName).err = "nil" /\ Match(patterns[i], fileName).matched

\* The ignore check of this callback: the error of filepath.Rel is dropped
\* and the empty path is matched.
IgnoreCheckPatterns(gi, d, path) ==
    IF gi.isNil THEN "keep"
    ELSE IF MatchesPath(gi.patterns, ToSlash(Rel(d, path).path)) THEN "skip"
    ELSE "keep"

\* What the callback of this GetSourceList does with an entry that is not
\* a directory.
FileDecisionPatterns(o, gi, d, path, name) ==
    IF SkipHidden(o, name) THEN "skip"
    ELSE IF ~MatchesAnyPattern(EffectivePatterns(o), name) THEN "skip"
    ELSE IF IgnoreCheckPatterns(gi, d, path) = "skip" THEN "skip"
    ELSE "append"

-----------------------------------------------------------------------------
(* The calls *)

\* The caller's second call takes the same options, or options that differ
\* in RespectGitignore or in GitignoreFilePath only; a nil argument is paired
\* with nil and with the explicit defaults.
Related(o1, o2) ==
    IF o1.isNil THEN o2 \in {NilOptions, DefaultOptions}
    ELSE /\ ~o2.isNil
         /\ o2.IncludeHidden = o1.IncludeHidden
         /\ o2.Extensions = o1.Extensions
         /\ \/ o2.RespectGitignore = o1.RespectGitignore
            \/ o2.GitignoreFilePath = o1.GitignoreFilePath

Init ==
    /\ fs \in {f \in FileSystems : ValidFS(f)}
    /\ dir \in (IF fs.cwd = "root" THEN {<<Dot>>} ELSE {fs.rootName, NoSuchDir})
    /\ dir = NoSuchDir => fs.nodes = {}
    /\ options \in {o \in [ScanIds -> OptionValues] : Related(o[1], o[2])}
    /\ pc = [s \in ScanIds |-> "call"]
    /\ opts = [s \in ScanIds |-> NilOptions]
    /\ gitIgnore = [s \in ScanIds |-> NoGitIgnore]
    /\ files = [s \in ScanIds |-> <<>>]
    /\ filesNil = [s \in ScanIds |-> TRUE]
    /\ err = [s \in ScanIds |-> "nil"]
    /\ todo = [s \in ScanIds |-> <<>>]
    /\ visited = [s \in ScanIds |-> <<>>]

\* GetSourceList up to the walk: the nil default, the ignore file, the
\* empty result slice.
Begin(s) ==
    /\ pc[s] = "call"
    /\ opts' = [opts EXCEPT ![s] = EffectiveOptions(options[s])]
    /\ gitIgnore' = [gitIgnore EXCEPT ![s] = LoadGitIgnore(fs, dir, EffectiveOptions(options[s]))]
    /\ files' = [files EXCEPT ![FilesOf(s)] = <<>>]
    /\ filesNil' = [filesNil EXCEPT ![FilesOf(s)] = MakeFiles]
    /\ pc' = [pc EXCEPT ![s] = "walk"]
    /\ UNCHANGED <<fs, dir, options, err, todo, visited>>

\* filepath.WalkDir: Lstat of the root.  On failure the callback is called
\* with the error and a nil entry, and the walk ends with what it returns;
\* a callback that does not return at its error check calls d.IsDir() on
\* the nil entry and panics.
WalkDirRoot(s) ==
    /\ pc[s] = "walk"
    /\ LET st == Lstat(fs, dir)
       IN  IF st.err # "nil"
           THEN IF CallbackOnError(st.err) = "nil"
                THEN /\ pc' = [pc EXCEPT ![s] = "panic"]
                     /\ UNCHANGED <<err, todo, visited>>
                ELSE /\ err' = [err EXCEPT ![s] = WalkDirResult(CallbackOnError(st.err))]
                     /\ pc' = [pc EXCEPT ![s] = "done"]
                     /\ UNCHANGED <<todo, visited>>
           ELSE /\ todo' = [todo EXCEPT ![s] = <<Entry(dir, Base(dir), st.kind, st.rel)>>]
                /\ pc' = [pc EXCEPT ![s] = "visit"]
                /\ UNCHANGED <<err, visited>>
    /\ UNCHANGED <<fs, dir, options, opts, gitIgnore, files, filesNil>>

\* Mutant of VisitDir: a directory whose listing failed is listed again.
VisitDirRetry(s) ==
    /\ pc[s] = "visit"
    /\ todo[s] # <<>>
    /\ LET d == Head(todo[s])
       IN  /\ IsDirKind(d.kind)
           /\ IF IsSkippedDir(d.name)
              THEN /\ todo' = [todo EXCEPT ![s] = Tail(@)]
                   /\ visited' = [visited EXCEPT ![s] = Append(@, d)]
                   /\ UNCHANGED <<err, pc>>
              ELSE LET rd == ReadDir(fs, d.rel)
                   IN  IF rd.err # "nil"
                       THEN /\ err' = [err EXCEPT ![s] = rd.err]
                            /\ UNCHANGED <<pc, todo, visited>>
                       ELSE /\ todo' = [todo EXCEPT ![s] =
                                           ChildEntries(d.path, rd.entries) \o Tail(@)]
                            /\ visited' = [visited EXCEPT ![s] = Append(@, d)]
                            /\ UNCHANGED <<err, pc>>
    /\ UNCHANGED <<fs, dir, options, opts, gitIgnore, files, filesNil>>

\* The callback on a directory entry, and WalkDir's listing of it: .git is
\* skipped; a listing error is reported to the callback in a second call,
\* and the walk ends if that call returns an error other than SkipDir.
VisitDir(s) ==
    /\ pc[s] = "visit"
    /\ todo[s] # <<>>
    /\ LET d == Head(todo[s])
       IN  /\ IsDirKind(d.kind)
           /\ visited' = [visited EXCEPT ![s] = Append(@, d)]
           /\ IF IsSkippedDir(d.name)
              THEN /\ todo' = [todo EXCEPT ![s] = Tail(@)]
                   /\ UNCHANGED <<err, pc>>
              ELSE LET rd == ReadDir(fs, d.rel)
                   IN  IF rd.err # "nil" /\ WalkDirResult(CallbackOnError(rd.err)) # "nil"
                       THEN /\ err' = [err EXCEPT ![s] = CallbackOnError(rd.err)]
                            /\ pc' = [pc EXCEPT ![s] = "done"]
                            /\ todo' = todo
                       ELSE /\ todo' = [todo EXCEPT ![s] =
                                           ChildEntries(d.path, rd.entries) \o Tail(@)]
                            /\ UNCHANGED <<err, pc>>
    /\ UNCHANGED <<fs, dir, options, opts, gitIgnore, files, filesNil>>

\* The callback on an entry that is not a directory.
VisitFile(s) ==
    /\ pc[s] = "visit"
    /\ todo[s] # <<>>
    /\ LET d == Head(todo[s])
           what == FileDecision(opts[s], gitIgnore[s], dir, d.path, d.name)
       IN  /\ ~IsDirKind(d.kind)
           /\ visited' = [visited EXCEPT ![s] = Append(@, d)]
           /\ IF what = "error"
              THEN /\ err' = [err EXCEPT ![s] = "EREL"]
                   /\ pc' = [pc EXCEPT ![s] = "done"]
                   /\ UNCHANGED <<todo, files, filesNil>>
              ELSE /\ files' = [files EXCEPT ![FilesOf(s)] =
                                   IF what = "append" THEN AppendFile(@, d.path) ELSE @]
                   /\ filesNil' = [filesNil EXCEPT ![FilesOf(s)] =
                                      IF what = "append" THEN FALSE ELSE @]
                   /\ todo' = [todo EXCEPT ![s] = Tail(@)]
                   /\ UNCHANGED <<err, pc>>
    /\ UNCHANGED <<fs, dir, options, opts, gitIgnore>>

\* WalkDir returns nil after the last entry; GetSourceList returns files, err.
Return(s) ==
    /\ pc[s] = "visit"
    /\ todo[s] = <<>>
    /\ err' = [err EXCEPT ![s] = "nil"]
    /\ pc' = [pc EXCEPT ![s] = "done"]
    /\ UNCHANGED <<fs, dir, options, opts, gitIgnore, files, filesNil, todo, visited>>

\* GetSourceList of part_005 up to the walk: the nil default, the declared
\* slices, the rules of <dir>/.gitignore.
BeginRules(s) ==
    /\ pc[s] = "call"
    /\ opts' = [opts EXCEPT ![s] = EffectiveOptions(options[s])]
    /\ gitIgnore' = [gitIgnore EXCEPT ![s] =
          LET rules == IF EffectiveOptions(options[s]).RespectGitignore
                       THEN LoadGitignoreRules(fs, dir) ELSE <<>>
          IN  [isNil |-> rules = <<>>, patterns |-> rules]]
    /\ files' = [files EXCEPT ![FilesOf(s)] = <<>>]
    /\ filesNil' = [filesNil EXCEPT ![FilesOf(s)] = DeclareFiles]
    /\ pc' = [pc EXCEPT ![s] = "walk"]
    /\ UNCHANGED <<fs, dir, options, err, todo, visited>>

\* The callback of part_005 on an entry that is not a directory.
VisitFileRules(s) ==
    /\ pc[s] = "visit"
    /\ todo[s] # <<>>
    /\ LET d == Head(todo[s])
           what == FileDecisionRules(opts[s], gitIgnore[s].patterns, dir, d.path, d.name)
       IN  /\ ~IsDirKind(d.kind)
           /\ visited' = [visited EXCEPT ![s] = Append(@, d)]
           /\ files' = [files EXCEPT ![FilesOf(s)] =
                            IF what = "append" THEN AppendFile(@, d.path) ELSE @]
           /\ filesNil' = [filesNil EXCEPT ![FilesOf(s)] =
                               IF what = "append" THEN FALSE ELSE @]
           /\ todo' = [todo EXCEPT ![s] = Tail(@)]
    /\ UNCHANGED <<fs, dir, options, opts, gitIgnore, err, pc>>

\* GetSourceList of part_004 (IncludePatterns) up to the walk: the nil
\* default, the include patterns, the ignore file, the empty result slice.
BeginPatterns(s) ==
    /\ pc[s] = "call"
    /\ opts' = [opts EXCEPT ![s] = EffectiveOptions(options[s])]
    /\ gitIgnore' = [gitIgnore EXCEPT ![s] = LoadGitIgnore(fs, dir, EffectiveOptions(options[s]))]
    /\ files' = [files EXCEPT ![FilesOf(s)] = <<>>]
    /\ filesNil' = [filesNil EXCEPT ![FilesOf(s)] = MakeFiles]
    /\ pc' = [pc EXCEPT ![s] = "walk"]
    /\ UNCHANGED <<fs, dir, options, err, todo, visited>>

\* The callback of part_004 (IncludePatterns) on an entry that is not a
\* directory.
VisitFilePatterns(s) ==
    /\ pc[s] = "visit"
    /\ todo[s] # <<>>
    /\ LET d == Head(todo[s])
           what == FileDecisionPatterns(opts[s], gitIgnore[s], dir, d.path, d.name)
       IN  /\ ~IsDirKind(d.kind)
           /\ visited' = [visited EXCEPT ![s] = Append(@, d)]
           /\ files' = [files EXCEPT ![FilesOf(s)] =
                            IF what = "append" THEN AppendFile(@, d.path) ELSE @]
           /\ filesNil' = [filesNil EXCEPT ![FilesOf(s)] =
                               IF what = "append" THEN FALSE ELSE @]
           /\ todo' = [todo EXCEPT ![s] = Tail(@)]
    /\ UNCHANGED <<fs, dir, options, opts, gitIgnore, err, pc>>

\* The caller makes call s when the calls before it have returned.
Turn(s) == \A t \in ScanIds : t < s => pc[t] = "done"

Next ==
    \/ \E s \in ScanIds : Turn(s) /\ Begin(s)
    \/ \E s \in ScanIds : Turn(s) /\ WalkDirRoot(s)
    \/ \E s \in ScanIds : Turn(s) /\ VisitDir(s)
    \/ \E s \in ScanIds : Turn(s) /\ VisitFile(s)
    \/ \E s \in ScanIds : Turn(s) /\ Return(s)

Spec == Init /\ [][Next]_vars

\* A call that has started keeps running: the caller makes its calls and
\* each call executes its next statement until it returns.  The calls are
\* those with nil options, on a root r that is missing, is no directory, is
\* empty, or holds the symbolic link ln.go beside a.go, sub and .git.
InitFair ==
    /\ Init
    /\ fs.cwd = "parent"
    /\ fs.rootName = RootR
    /\ options[1].isNil /\ options[2].isNil
    /\ fs.nodes = {} \/ \E n \in fs.nodes : n.kind = "symlink"
    /\ \A n \in fs.nodes : n.rel[1] \in {LnGo, Sub, DotGit, AGo}

SpecFair == InitFair /\ [][Next]_vars /\ WF_vars(Next)

\* Two calls made by two goroutines on one tree: the root r seen from its
\* parent directory; the first call reads the root's own ignore file.
InitConcurrent ==
    /\ Init
    /\ fs.cwd = "parent"
    /\ fs.rootName = RootR
    /\ options[1].isNil \/ options[1].GitignoreFilePath = EmptyStr

\* The steps of the two calls interleave in every order.
NextConcurrent ==
    \/ \E s \in ScanIds : Begin(s)
    \/ \E s \in ScanIds : WalkDirRoot(s)
    \/ \E s \in ScanIds : VisitDir(s)
    \/ \E s \in ScanIds : VisitFile(s)
    \/ \E s \in ScanIds : Return(s)

SpecConcurrent == InitConcurrent /\ [][NextConcurrent]_vars

\* The calls of the GetSourceList with IncludePatterns, on the trees below a
\* root r seen from its parent: two calls that differ at most in their
\* include patterns.
InitPatterns ==
    /\ fs \in {f \in FileSystems : ValidFS(f) /\ f.cwd = "parent" /\ f.rootName = RootR}
    /\ dir \in {fs.rootName, NoSuchDir}
    /\ dir = NoSuchDir => fs.nodes = {}
    /\ options \in {o \in [ScanIds -> PatternOptionValues] :
                       /\ o[1].isNil = o[2].isNil
                       /\ o[1].RespectGitignore = o[2].RespectGitignore
                       /\ o[1].IncludeHidden = o[2].IncludeHidden
                       /\ o[1].GitignoreFilePath = EmptyStr
                       /\ o[2].GitignoreFilePath = EmptyStr}
    /\ pc = [s \in ScanIds |-> "call"]
    /\ opts = [s \in ScanIds |-> NilOptions]
    /\ gitIgnore = [s \in ScanIds |-> NoGitIgnore]
    /\ files = [s \in ScanIds |-> <<>>]
    /\ filesNil = [s \in ScanIds |-> TRUE]
    /\ err = [s \in ScanIds |-> "nil"]
    /\ todo = [s \in ScanIds |-> <<>>]
    /\ visited = [s \in ScanIds |-> <<>>]

NextPatterns ==
    \/ \E s \in ScanIds : Turn(s) /\ BeginPatterns(s)
    \/ \E s \in ScanIds : Turn(s) /\ WalkDirRoot(s)
    \/ \E s \in ScanIds : Turn(s) /\ VisitDir(s)
    \/ \E s \in ScanIds : Turn(s) /\ VisitFilePatterns(s)
    \/ \E s \in ScanIds : Turn(s) /\ Return(s)

SpecPatterns == InitPatterns /\ [][NextPatterns]_vars

\* The calls of the GetSourceList of part_005 on roots whose .gitignore is
\* drawn line by line, negated rules included.
InitRules ==
    /\ fs \in RulesFileSystems
    /\ dir \in {fs.rootName, NoSuchDir}
    /\ options \in [ScanIds -> {Options(r, h, <<>>, EmptyStr) : r \in BOOLEAN, h \in BOOLEAN}]
    /\ options[1].RespectGitignore
    /\ options[1].IncludeHidden = options[2].IncludeHidden
    /\ pc = [s \in ScanIds |-> "call"]
    /\ opts = [s \in ScanIds |-> NilOptions]
    /\ gitIgnore = [s \in ScanIds |-> NoGitIgnore]
    /\ files = [s \in ScanIds |-> <<>>]
    /\ filesNil = [s \in ScanIds |-> TRUE]
    /\ err = [s \in ScanIds |-> "nil"]
    /\ todo = [s \in ScanIds |-> <<>>]
    /\ visited = [s \in ScanIds |-> <<>>]

NextRules ==
    \/ \E s \in ScanIds : Turn(s) /\ BeginRules(s)
    \/ \E s \in ScanIds : Turn(s) /\ WalkDirRoot(s)
    \/ \E s \in ScanIds : Turn(s) /\ VisitDir(s)
    \/ \E s \in ScanIds : Turn(s) /\ VisitFileRules(s)
    \/ \E s \in ScanIds : Turn(s) /\ Return(s)

SpecRules == InitRules /\ [][NextRules]_vars

\* The calls of the GetSourceList of get_source_list.go on the trees with
\* unreadable and excluded directories.
InitPrune ==
    /\ fs \in PruneFileSystems
    /\ dir = (IF fs.cwd = "root" THEN <<Dot>> ELSE fs.rootName)
    /\ options \in {o \in [ScanIds -> OptionValues] :
                       /\ Related(o[1], o[2])
                       /\ o[1].GitignoreFilePath = EmptyStr
                       /\ o[2].GitignoreFilePath = EmptyStr}
    /\ pc = [s \in ScanIds |-> "call"]
    /\ opts = [s \in ScanIds |-> NilOptions]
    /\ gitIgnore = [s \in ScanIds |-> NoGitIgnore]
    /\ files = [s \in ScanIds |-> <<>>]
    /\ filesNil = [s \in ScanIds |-> TRUE]
    /\ err = [s \in ScanIds |-> "nil"]
    /\ todo = [s \in ScanIds |-> <<>>]
    /\ visited = [s \in ScanIds |-> <<>>]

SpecPrune == InitPrune /\ [][Next]_vars

\* The worked example: the caller scans an example tree first with the
\* GetSourceList of get_source_list.go (call 1), then with the GetSourceList
\* of part_005 (call 2), which has no GitignoreFilePath.
InitExample ==
    /\ fs \in ExampleFileSystems
    /\ dir = (IF fs.cwd = "root" THEN <<Dot>> ELSE fs.rootName)
    /\ options \in {o \in [ScanIds -> OptionValues] :
                       /\ Related(o[1], o[2])
                       /\ o[1].GitignoreFilePath = EmptyStr
                       /\ o[2].GitignoreFilePath = EmptyStr}
    /\ pc = [s \in ScanIds |-> "call"]
    /\ opts = [s \in ScanIds |-> NilOptions]
    /\ gitIgnore = [s \in ScanIds |-> NoGitIgnore]
    /\ files = [s \in ScanIds |-> <<>>]
    /\ filesNil = [s \in ScanIds |-> TRUE]
    /\ err = [s \in ScanIds |-> "nil"]
    /\ todo = [s \in ScanIds |-> <<>>]
    /\ visited = [s \in ScanIds |-> <<>>]

NextExample ==
    \/ Begin(1)
    \/ VisitFile(1)
    \/ Turn(2) /\ BeginRules(2)
    \/ Turn(2) /\ VisitFileRules(2)
    \/ \E s \in ScanIds : Turn(s) /\ WalkDirRoot(s)
    \/ \E s \in ScanIds : Turn(s) /\ VisitDir(s)
    \/ \E s \in ScanIds : Turn(s) /\ Return(s)

SpecExample == InitExample /\ [][NextExample]_vars

-----------------------------------------------------------------------------
(* Vocabulary of the properties *)

Done(s) == pc[s] = "done"

Succeeded(s) == Done(s) /\ err[s] = "nil"

\* Ignore rules are respected by call s: asked for, or by the nil default.
RespectOn(s) == options[s].isNil \/ options[s].RespectGitignore

Elements(seq) == {seq[i] : i \in DOMAIN seq}

NoDuplicates(seq) == \A i, j \in DOMAIN seq : seq[i] = seq[j] => i = j

\* The path of a place relative to the root: its names joined by slashes,
\* "." for the root itself.
RECURSIVE RelString(_)
RelString(rel) ==
    IF rel = <<>> THEN <<Dot>>
    ELSE IF Len(rel) = 1 THEN rel[1]
    ELSE rel[1] \o <<Slash>> \o RelString(Tail(rel))

\* The name of the entry at a place: for the root, the last element of dir.
NameOf(rel) == IF rel = <<>> THEN Base(dir) ELSE Last(rel)

\* The entries of the file system: those below the root and the root.
AllEntries == fs.nodes \cup {Node(<<>>, fs.rootKind, <<>>)}

\* The path under which the scan reports the entry at place rel.
PathOf(rel) == IF rel = <<>> THEN dir ELSE Join(dir, RelString(rel))

\* The extension of a base name: from its last dot on, empty without a dot.
BaseExt(name) ==
    IF LastIndex(name, Dot) = 0 THEN EmptyStr
    ELSE SubSeq(name, LastIndex(name, Dot), Len(name))

\* The place lies inside a directory that is really named .git: an ancestor
\* below the root, or the root directory itself.
InsideGitDirectory(rel) ==
    /\ rel # <<>>
    /\ \/ fs.rootName = DotGit
       \/ \E i \in 1..(Len(rel) - 1) : rel[i] = DotGit

\* The place lies inside a directory whose entry name in the walk is .git:
\* an ancestor below the root, or the root when the dir argument ends in .git.
InsideGitEntry(rel) ==
    /\ rel # <<>>
    /\ \/ Base(dir) = DotGit
       \/ \E i \in 1..(Len(rel) - 1) : rel[i] = DotGit

\* The entry passes the hidden-file, extension and ignore-rule filters of
\* call s, the last with the rule set the call has loaded.
PassesFilters(s, n) ==
    /\ options[s].IncludeHidden \/ Head(NameOf(n.rel)) # Dot
    /\ \/ options[s].Extensions = <<>>
       \/ BaseExt(NameOf(n.rel)) \in Elements(options[s].Extensions)
    /\ RespectOn(s) => ~MatchesPath(gitIgnore[s].patterns, RelString(n.rel))

\* The lines of <root>/.gitignore, none when it is no regular file.
RootIgnoreLines ==
    IF \E n \in fs.nodes : n.rel = <<DotGitignore>> /\ n.kind = "file"
    THEN (CHOOSE n \in fs.nodes : n.rel = <<DotGitignore>>).lines
    ELSE <<>>

\* The lines of the file GitignoreFilePath names: c.ign exists beside the
\* root, so only a process running in the root's parent finds it.
CustomIgnoreLines == IF fs.cwd = "parent" THEN CustomLines ELSE <<>>

\* The ignore file call s names cannot be read as a regular file.
IgnoreFileUnreadable(s) ==
    IF options[s].GitignoreFilePath = EmptyStr
    THEN ~\E n \in fs.nodes : n.rel = <<DotGitignore>> /\ n.kind = "file"
    ELSE fs.cwd = "root"

\* Calls s and t have the same IncludeHidden, Extensions and GitignoreFilePath.
SameOtherOptions(s, t) ==
    /\ options[s].IncludeHidden = options[t].IncludeHidden
    /\ options[s].Extensions = options[t].Extensions
    /\ options[s].GitignoreFilePath = options[t].GitignoreFilePath

-----------------------------------------------------------------------------
(* Properties *)

\* C1 as stated: no call ever visits an entry inside a directory named .git,
\* be it the root or a descendant of the root, and no returned path lies
\* inside one.  (Fails: a root named .git that is scanned as "." is walked.)
C1_NeverInsideGitDirectory ==
    \A s \in ScanIds :
        /\ \A i \in DOMAIN visited[s] : ~InsideGitDirectory(visited[s][i].rel)
        /\ \A i \in DOMAIN files[s] : ~InsideGitDirectory(Resolve(fs, files[s][i]).rel)

\* C1 amended: no call ever visits an entry inside a directory whose entry
\* name in the walk is .git (a descendant directory named .git, or the root
\* when the last element of the dir argument is .git), and no returned path
\* lies inside one, whatever the options.
C1_NeverInsideGitEntry ==
    \A s \in ScanIds :
        /\ \A i \in DOMAIN visited[s] : ~InsideGitEntry(visited[s][i].rel)
        /\ \A i \in DOMAIN files[s] : ~InsideGitEntry(Resolve(fs, files[s][i]).rel)

\* C1 witness: a scan with IncludeHidden=true and RespectGitignore=false has
\* returned after visiting sub/.git, which holds d.go.
C1_Witness ==
    \E s \in ScanIds :
        /\ Succeeded(s)
        /\ options[s].IncludeHidden /\ ~RespectOn(s)
        /\ \E n \in fs.nodes : n.rel = <<Sub, DotGit, DGo>>
        /\ \E i \in DOMAIN visited[s] : visited[s][i].rel = <<Sub, DotGit>>

\* C2 as stated: a successful call on a directory returns exactly the
\* regular files under the root, outside pruned .git directories, that pass
\* the filters: each of them, nothing else, none twice.  (Fails: symbolic
\* links are returned.)
C2_ExactlyTheRegularFiles ==
    \A s \in ScanIds :
        (Succeeded(s) /\ IsDirKind(fs.rootKind)) =>
            /\ Elements(files[s]) =
                  { PathOf(n.rel) : n \in { m \in fs.nodes :
                        /\ m.kind = "file"
                        /\ ~InsideGitEntry(m.rel)
                        /\ PassesFilters(s, m) } }
            /\ NoDuplicates(files[s])

\* C2 amended: a successful call returns exactly the entries that are not
\* directories (regular files, and also symbolic links, which are not
\* followed), outside pruned .git directories, that pass all active
\* filters: each of them, no directory, no entry that fails a filter, no
\* path twice.  The entries are those below the root, and the root itself
\* when it is not a directory.
C2_ExactlyTheNonDirectories ==
    \A s \in ScanIds :
        Succeeded(s) =>
            /\ Elements(files[s]) =
                  { PathOf(n.rel) : n \in { m \in AllEntries :
                        /\ ~IsDirKind(m.kind)
                        /\ ~InsideGitEntry(m.rel)
                        /\ PassesFilters(s, m) } }
            /\ NoDuplicates(files[s])

\* C2 witness: a call that respects the rules of <root>/.gitignore has
\* returned the symbolic link ln.go and not a.go, which the rules exclude.
C2_Witness ==
    \E s \in ScanIds :
        /\ Succeeded(s)
        /\ RespectOn(s) /\ options[s].GitignoreFilePath = EmptyStr
        /\ RootIgnoreLines # <<>>
        /\ \E n \in fs.nodes : n.rel = <<AGo>>
        /\ Elements(files[s]) = {PathOf(<<LnGo>>)}

\* C3: with IncludeHidden=false no returned path has a base name that
\* starts with a dot.
C3_NoHiddenReturned ==
    \A s \in ScanIds :
        ~options[s].IncludeHidden =>
            \A i \in DOMAIN files[s] : Head(Base(files[s][i])) # Dot

\* C3 witness: a scan with IncludeHidden=false of a tree that holds .env has
\* returned some file.
C3_Witness ==
    \E s \in ScanIds :
        /\ Succeeded(s)
        /\ ~options[s].IncludeHidden
        /\ \E n \in fs.nodes : n.rel = <<DotEnv>>
        /\ files[s] # <<>>

\* C4: with a non-empty Extensions list, the extension of every returned
\* path's base name is a member of the list.
C4_ExtensionInList ==
    \A s \in ScanIds :
        Len(options[s].Extensions) > 0 =>
            \A i \in DOMAIN files[s] :
                BaseExt(Base(files[s][i])) \in Elements(options[s].Extensions)

\* C4 witness: a scan with the extensions .js and .go of a tree that holds
\* a.go and sub/b.GO has visited both and returned a.go alone.
C4_Witness ==
    \E s \in ScanIds :
        /\ Succeeded(s)
        /\ Len(options[s].Extensions) > 0
        /\ ~RespectOn(s)
        /\ \E i \in DOMAIN visited[s] : visited[s][i].rel = <<Sub, BUpperGo>>
        /\ Elements(files[s]) = {PathOf(<<AGo>>)}

\* C5: a call on a root that does not exist returns an error and an empty
\* sequence.
C5_MissingRootFails ==
    \A s \in ScanIds :
        (Done(s) /\ dir = NoSuchDir) => (err[s] # "nil" /\ files[s] = <<>>)

\* C5 witness: a call with options on a missing root has returned.
C5_Witness ==
    \E s \in ScanIds : Done(s) /\ dir = NoSuchDir /\ ~options[s].isNil

\* C6 as stated: when the listing of a sub-directory fails, the call
\* returns the error and an empty sequence.  (Fails: the files collected
\* before the failure are returned with the error.)
C6_ErrorDiscardsFiles ==
    \A s \in ScanIds :
        (Done(s) /\ fs.rootKind = "dir" /\ dir # NoSuchDir /\ err[s] # "nil")
            => files[s] = <<>>

\* C7 as stated: a call on a root that exists and is not a directory returns
\* an error and an empty sequence.  (Fails: the root path is returned.)
C7_NonDirectoryRootFails ==
    \A s \in ScanIds :
        (Done(s) /\ dir # NoSuchDir /\ ~IsDirKind(fs.rootKind))
            => (err[s] # "nil" /\ files[s] = <<>>)

\* C8: a call that respects ignore rules and whose ignore file is missing or
\* unreadable returns what the same call with RespectGitignore=false returns:
\* the same paths and the same error.
C8_UnreadableIgnoreFileIsNoRules ==
    \A s, t \in ScanIds :
        ( /\ Done(s) /\ Done(t)
          /\ RespectOn(s) /\ ~RespectOn(t)
          /\ SameOtherOptions(s, t)
          /\ IgnoreFileUnreadable(s) )
        => (files[s] = files[t] /\ err[s] = err[t])

\* C8 witness: such a pair of calls has returned, with a custom ignore path
\* that names nothing, a .gitignore in the tree, and a non-empty result.
C8_Witness ==
    \E s, t \in ScanIds :
        /\ Succeeded(s) /\ Succeeded(t)
        /\ RespectOn(s) /\ ~RespectOn(t)
        /\ SameOtherOptions(s, t)
        /\ options[s].GitignoreFilePath # EmptyStr
        /\ IgnoreFileUnreadable(s)
        /\ RootIgnoreLines # <<>>
        /\ files[s] # <<>>

\* C9: a call with nil options returns what a call with RespectGitignore=true,
\* IncludeHidden=false, no extensions and no ignore path returns.
C9_NilIsDefault ==
    \A s, t \in ScanIds :
        ( /\ Done(s) /\ Done(t)
          /\ options[s].isNil
          /\ options[t] = Options(TRUE, FALSE, <<>>, EmptyStr) )
        => (files[s] = files[t] /\ err[s] = err[t])

\* C9 witness: a nil call and an explicit default call have returned on a
\* tree with a hidden file and a non-empty result.
C9_Witness ==
    \E s, t \in ScanIds :
        /\ Succeeded(s) /\ Succeeded(t)
        /\ options[s].isNil
        /\ options[t] = Options(TRUE, FALSE, <<>>, EmptyStr)
        /\ \E n \in fs.nodes : n.rel = <<DotEnv>>
        /\ files[s] # <<>>

\* C10: with RespectGitignore=true the loaded rules are those of one file,
\* <root>/.gitignore when GitignoreFilePath is empty and the file at
\* GitignoreFilePath otherwise; in the second case every regular file that
\* passes the hidden and extension filters and that the custom file's rules
\* do not match is returned, whatever <root>/.gitignore says.
C10_RulesFromOneFile ==
    \A s \in ScanIds :
        /\ (pc[s] # "call" /\ RespectOn(s)) =>
              gitIgnore[s].patterns =
                  CompileIgnoreLines(IF options[s].GitignoreFilePath = EmptyStr
                                     THEN RootIgnoreLines ELSE CustomIgnoreLines)
        /\ (Succeeded(s) /\ RespectOn(s) /\ options[s].GitignoreFilePath # EmptyStr) =>
              \A n \in fs.nodes :
                  ( /\ n.kind = "file"
                    /\ ~InsideGitEntry(n.rel)
                    /\ options[s].IncludeHidden \/ Head(Last(n.rel)) # Dot
                    /\ \/ options[s].Extensions = <<>>
                       \/ BaseExt(Last(n.rel)) \in Elements(options[s].Extensions)
                    /\ ~MatchesPath(CompileIgnoreLines(CustomIgnoreLines), RelString(n.rel)) )
                  => PathOf(n.rel) \in Elements(files[s])

\* C10 witness: a call with a custom ignore file has returned a.go although
\* <root>/.gitignore excludes it.
C10_Witness ==
    \E s \in ScanIds :
        /\ Succeeded(s)
        /\ RespectOn(s)
        /\ options[s].GitignoreFilePath # EmptyStr
        /\ fs.cwd = "parent"
        /\ MatchesPath(CompileIgnoreLines(RootIgnoreLines), AGo)
        /\ PathOf(<<AGo>>) \in Elements(files[s])

\* Every directory of the tree can be listed and the root is a directory
\* that exists.
TreeReadable ==
    /\ dir # NoSuchDir
    /\ fs.rootKind = "dir"
    /\ \A n \in fs.nodes : n.kind # "baddir"

\* The entries call s has to return: not directories, outside pruned .git
\* directories, passing the filters.
Eligible(s) ==
    { m \in AllEntries : /\ ~IsDirKind(m.kind)
                         /\ ~InsideGitEntry(m.rel)
                         /\ PassesFilters(s, m) }

\* C11: a call that returns no error returns a slice that is not nil; on a
\* readable root directory that is empty, or in which no entry passes the
\* filters, the call returns no error and an empty slice that is not nil.
C11_NoErrorNonNil ==
    \A s \in ScanIds :
        /\ Succeeded(s) => ~filesNil[s]
        /\ (Done(s) /\ TreeReadable /\ Eligible(s) = {}) =>
              (err[s] = "nil" /\ files[s] = <<>> /\ ~filesNil[s])

\* C11 witness: a call has returned from a root that holds a.go and from
\* which nothing passes the filters.
C11_Witness ==
    \E s \in ScanIds :
        /\ Done(s) /\ TreeReadable /\ Eligible(s) = {}
        /\ \E n \in fs.nodes : n.rel = <<AGo>>
        /\ files[s] = <<>>

\* The paths of the entries the callback of call s was called on, in the
\* order of the calls.
VisitedPaths(s) == [i \in DOMAIN visited[s] |-> visited[s][i].path]

\* C12: at every moment the collected slice is the visited paths that were
\* kept, in the order of their visits (nothing is sorted, moved or
\* repeated); two calls with the same arguments on the same tree return
\* the same slice and the same error.
C12_VisitationOrder ==
    /\ \A s \in ScanIds :
          files[s] = SelectSeq(VisitedPaths(s), LAMBDA p : p \in Elements(files[s]))
    /\ \A s, t \in ScanIds :
          (Done(s) /\ Done(t) /\ options[s] = options[t]) =>
              (files[s] = files[t] /\ err[s] = err[t])

\* C12 witness: two calls with the same options have returned a.go followed
\* by sub/b.GO, visited in that order.
C12_Witness ==
    /\ Done(1) /\ Done(2) /\ options[1] = options[2]
    /\ files[2] = <<PathOf(<<AGo>>), PathOf(<<Sub, BUpperGo>>)>>

\* C15: no call panics: the callback never reaches d.IsDir() on the nil
\* entry that WalkDir reports when the root cannot be accessed, and it is
\* called on existing entries only.
C15_NeverPanics ==
    \A s \in ScanIds :
        /\ pc[s] # "panic"
        /\ \A i \in DOMAIN visited[s] : visited[s][i].kind # "none"

\* C15 witness: a call with nil options on a root that does not exist has
\* returned the error of the root's Lstat.
C15_Witness ==
    \E s \in ScanIds :
        Done(s) /\ dir = NoSuchDir /\ options[s].isNil /\ err[s] = "ENOENT"

\* The walk of a call that runs alone, from the entries it has still to
\* visit and the slice it has collected: what the call returns.
RECURSIVE WalkAlone(_, _, _, _)
WalkAlone(o, gi, td, fl) ==
    IF td = <<>> THEN [files |-> fl, err |-> "nil"]
    ELSE LET d == Head(td)
         IN  IF IsDirKind(d.kind)
             THEN IF IsSkippedDir(d.name) THEN WalkAlone(o, gi, Tail(td), fl)
                  ELSE LET rd == ReadDir(fs, d.rel)
                       IN  IF rd.err # "nil" /\ WalkDirResult(CallbackOnError(rd.err)) # "nil"
                           THEN [files |-> fl, err |-> CallbackOnError(rd.err)]
                           ELSE WalkAlone(o, gi, ChildEntries(d.path, rd.entries) \o Tail(td), fl)
             ELSE LET what == FileDecision(o, gi, dir, d.path, d.name)
                  IN  IF what = "error" THEN [files |-> fl, err |-> "EREL"]
                      ELSE WalkAlone(o, gi, Tail(td),
                                     IF what = "append" THEN Append(fl, d.path) ELSE fl)

\* What a call with the options argument o returns when no other call runs.
ScanAlone(o) ==
    LET st == Lstat(fs, dir)
        eo == EffectiveOptions(o)
    IN  IF st.err # "nil"
        THEN [files |-> <<>>, err |-> WalkDirResult(CallbackOnError(st.err))]
        ELSE WalkAlone(eo, LoadGitIgnore(fs, dir, eo),
                       <<Entry(dir, Base(dir), st.kind, st.rel)>>, <<>>)

\* Call s has returned what it returns when it runs alone.
ReturnsAsAlone(s) ==
    Done(s) => (files[s] = ScanAlone(options[s]).files /\ err[s] = ScanAlone(options[s]).err)

\* C13: however the steps of two calls interleave, each call returns the
\* slice and the error it returns when it runs alone, and no step of any
\* call changes an options argument.
C13_ConcurrentAsAlone ==
    /\ [](\A s \in ScanIds : ReturnsAsAlone(s))
    /\ [][options' = options]_vars

\* C13 witness: the second call has returned files while the first call,
\* made with other options, is in the middle of its walk.
C13_Witness ==
    /\ Done(2) /\ files[2] # <<>>
    /\ pc[1] = "visit" /\ files[1] # <<>> /\ todo[1] # <<>>
    /\ options[1] # options[2]

\* C13 witness for one shared options object: both calls got the same
\* options and are both in the middle of their walks.
C13_SharedOptionsReached ==
    /\ options[1] = options[2] /\ ~options[1].isNil
    /\ pc[1] = "visit" /\ pc[2] = "visit"
    /\ files[1] # <<>> /\ files[2] # <<>> /\ todo[1] # <<>> /\ todo[2] # <<>>

\* A call that has returned takes no further step: nothing is tried again.
StaysReturned(s) ==
    Done(s) => /\ Done(s)'
               /\ err'[s] = err[s] /\ files'[s] = files[s]
               /\ visited'[s] = visited[s] /\ todo'[s] = todo[s]

\* C14: on every tree of the model every call eventually returns, and once
\* it has returned, with or without an error, it does nothing more; an
\* entry that is a symbolic link is never listed.
C14_Terminates ==
    /\ <>(\A s \in ScanIds : Done(s))
    /\ [][\A s \in ScanIds : StaysReturned(s)]_vars
    /\ [](\A s \in ScanIds : \A i \in DOMAIN visited[s] :
             visited[s][i].kind = "symlink" =>
                 ~\E j \in DOMAIN visited[s] :
                     /\ Len(visited[s][j].rel) > Len(visited[s][i].rel)
                     /\ SubSeq(visited[s][j].rel, 1, Len(visited[s][i].rel)) = visited[s][i].rel)

\* C14 witness: both calls have returned, the first with the error of a
\* directory that cannot be listed, from a tree that holds a symbolic link.
C14_Witness ==
    /\ Done(1) /\ Done(2)
    /\ err[1] = "EACCES"
    /\ \E i \in DOMAIN visited[1] : visited[1][i].kind = "symlink"

\* The returned paths of call s relative to the root.
RelativeFiles(s) == { Rel(dir, files[s][i]).path : i \in DOMAIN files[s] }

\* Call s runs with the default options: nil, or RespectGitignore and not
\* IncludeHidden and no extensions.
DefaultCall(s) == options[s] \in {NilOptions, DefaultOptions}

\* C16: on the example tree (a.go, a.txt, sub/b.go, .secret,
\* node_modules/pkg.json, build/out.bin; rules node_modules/, build/,
\* *.bin, .secret) a call with default options returns exactly a.go, a.txt
\* and sub/b.go, with either GetSourceList.
C16_ExampleDefault ==
    \A s \in ScanIds :
        (Done(s) /\ fs.nodes = ExampleNodes /\ DefaultCall(s)) =>
            /\ err[s] = "nil"
            /\ RelativeFiles(s) = {AGo, ATxt, RelString(<<Sub, BGo>>)}
            /\ Len(files[s]) = 3

\* C16 witness: both calls have returned from the example tree, made with
\* default options.
C16_Witness ==
    /\ fs.nodes = ExampleNodes
    /\ Done(1) /\ Done(2) /\ DefaultCall(1) /\ DefaultCall(2)
    /\ Len(files[2]) = 3

\* Hidden files are left out by call s: asked for, or by the nil default.
HiddenOff(s) == options[s].isNil \/ ~options[s].IncludeHidden

\* The place lies below a directory, other than .git, whose name starts
\* with a dot.
BelowDotDirectory(rel) ==
    \E i \in 1..(Len(rel) - 1) : Head(rel[i]) = Dot /\ rel[i] # DotGit

\* The rules that call s of the worked example has loaded exclude the place:
\* call 1 asks go-gitignore, call 2 its own isIgnored.
IgnoredInExample(s, rel) ==
    /\ RespectOn(s)
    /\ IF s = 1 THEN MatchesPath(gitIgnore[s].patterns, RelString(rel))
       ELSE IsIgnored(PathOf(rel), dir, gitIgnore[s].patterns)

\* C17 as stated: with IncludeHidden=false no returned file lies below a
\* directory whose name starts with a dot.  (Fails: .config/app.go is
\* returned.)
C17_NothingBelowDotDirectory ==
    \A s \in ScanIds :
        (Succeeded(s) /\ HiddenOff(s)) =>
            \A n \in fs.nodes :
                BelowDotDirectory(n.rel) => PathOf(n.rel) \notin Elements(files[s])

\* What the code does with IncludeHidden=false: the dot test is made on the
\* base name of each entry that is not a directory, so no returned path has
\* a base name that starts with a dot, and a file with another base name
\* that lies below a dot-named directory other than .git is returned when
\* it passes the extension filter and the ignore rules.
C17_HiddenTestsBaseNameOnly ==
    \A s \in ScanIds :
        (Succeeded(s) /\ HiddenOff(s)) =>
            /\ \A i \in DOMAIN files[s] : Head(Base(files[s][i])) # Dot
            /\ \A n \in fs.nodes :
                  ( /\ BelowDotDirectory(n.rel)
                    /\ ~IsDirKind(n.kind)
                    /\ Head(Last(n.rel)) # Dot
                    /\ ~InsideGitEntry(n.rel)
                    /\ \/ options[s].Extensions = <<>>
                       \/ BaseExt(Last(n.rel)) \in Elements(options[s].Extensions)
                    /\ ~IgnoredInExample(s, n.rel) )
                  => PathOf(n.rel) \in Elements(files[s])

\* The entries a call with the hidden-file and extension options of call s
\* returns when no ignore rule is applied: a set that depends on the names
\* and kinds of the entries only, not on the content of any file.
EligibleWithoutRules(s) ==
    { m \in AllEntries :
        /\ ~IsDirKind(m.kind)
        /\ ~InsideGitEntry(m.rel)
        /\ options[s].IncludeHidden \/ Head(NameOf(m.rel)) # Dot
        /\ \/ options[s].Extensions = <<>>
           \/ BaseExt(NameOf(m.rel)) \in Elements(options[s].Extensions) }

\* C18: a call with RespectGitignore=false loads no ignore file and returns
\* exactly the entries that pass the hidden-file and extension filters,
\* whatever <root>/.gitignore holds; two such calls that differ only in
\* GitignoreFilePath return the same slice and error.
C18_RulesIgnoredWhenOff ==
    /\ \A s \in ScanIds :
          (pc[s] # "call" /\ ~RespectOn(s)) => gitIgnore[s].isNil
    /\ \A s \in ScanIds :
          (Succeeded(s) /\ ~RespectOn(s)) =>
              Elements(files[s]) = { PathOf(m.rel) : m \in EligibleWithoutRules(s) }
    /\ \A s, t \in ScanIds :
          ( /\ Done(s) /\ Done(t) /\ ~RespectOn(s) /\ ~RespectOn(t)
            /\ options[s].IncludeHidden = options[t].IncludeHidden
            /\ options[s].Extensions = options[t].Extensions )
          => (files[s] = files[t] /\ err[s] = err[t])

\* C18 witness: two calls with RespectGitignore=false, one naming the
\* custom ignore file and one not, have both returned a.go and ln.go from a
\* root whose .gitignore excludes *.go.
C18_Witness ==
    /\ Succeeded(1) /\ Succeeded(2) /\ ~RespectOn(1) /\ ~RespectOn(2)
    /\ options[1].GitignoreFilePath # options[2].GitignoreFilePath
    /\ fs.cwd = "parent"
    /\ RootIgnoreLines # <<>>
    /\ files[1] = <<PathOf(<<AGo>>), PathOf(<<LnGo>>)>>
    /\ files[2] = files[1]

\* The base name passes the pattern stage: there is no pattern, or some
\* pattern glob-matches it.
PassesPatternStage(patterns, name) ==
    \/ patterns = <<>>
    \/ \E i \in DOMAIN patterns : Match(patterns[i], name).matched

\* C19: a successful call of the GetSourceList with IncludePatterns returns
\* exactly the entries that are not directories, lie outside pruned .git
\* directories, pass the hidden-file test and the ignore rules, and whose
\* base name passes the pattern stage: it matches one of the patterns, or
\* IncludePatterns is empty or the options are nil.
C19_PatternStage ==
    \A s \in ScanIds :
        Succeeded(s) =>
            Elements(files[s]) =
                { PathOf(m.rel) : m \in { n \in AllEntries :
                    /\ ~IsDirKind(n.kind)
                    /\ ~InsideGitEntry(n.rel)
                    /\ options[s].IncludeHidden \/ Head(NameOf(n.rel)) # Dot
                    /\ RespectOn(s) => ~MatchesPath(gitIgnore[s].patterns, RelString(n.rel))
                    /\ PassesPatternStage(options[s].IncludePatterns, NameOf(n.rel)) } }

\* C19 witness: from a root that holds a.go and ln.go the call with the
\* pattern ?.go has returned a.go alone, and the call without patterns has
\* returned both.
C19_Witness ==
    /\ Succeeded(1) /\ Succeeded(2)
    /\ options[1].IncludePatterns = <<PatternOneGo>>
    /\ ~options[2].isNil /\ options[2].IncludePatterns = <<>>
    /\ files[1] = <<PathOf(<<AGo>>)>>
    /\ files[2] = <<PathOf(<<AGo>>), PathOf(<<LnGo>>)>>

\* The rules that do not start with "!".
StripNegated(rules) == SelectSeq(rules, LAMBDA r : ~HasPrefix(r, <<Bang>>))

\* Some rule of the sequence matches the relative path.
SomeRuleMatches(rules, relPath) ==
    \E i \in DOMAIN rules : MatchesGitignoreRule(relPath, rules[i])

FilterOrders ==
    { <<"hidden", "extension", "ignore">>, <<"hidden", "ignore", "extension">>,
      <<"extension", "hidden", "ignore">>, <<"extension", "ignore", "hidden">>,
      <<"ignore", "hidden", "extension">>, <<"ignore", "extension", "hidden">> }

\* What one filter says of an entry: "skip", "keep", or "error".
FilterSays(filter, o, gi, d, path, name) ==
    IF filter = "hidden" THEN (IF SkipHidden(o, name) THEN "skip" ELSE "keep")
    ELSE IF filter = "extension" THEN (IF SkipExtension(o, path) THEN "skip" ELSE "keep")
    ELSE IgnoreCheck(gi, d, path)

\* The decision of a callback that applies the filters in the given order
\* and stops at the first that does not keep the entry.
RECURSIVE DecideInOrder(_, _, _, _, _, _)
DecideInOrder(order, o, gi, d, path, name) ==
    IF order = <<>> THEN "append"
    ELSE IF FilterSays(Head(order), o, gi, d, path, name) = "keep"
         THEN DecideInOrder(Tail(order), o, gi, d, path, name)
    ELSE FilterSays(Head(order), o, gi, d, path, name)

\* The walk of a call whose callback applies the filters in the given order.
RECURSIVE WalkInOrder(_, _, _, _, _)
WalkInOrder(order, o, gi, td, fl) ==
    IF td = <<>> THEN [files |-> fl, err |-> "nil"]
    ELSE LET d == Head(td)
         IN  IF IsDirKind(d.kind)
             THEN IF IsSkippedDir(d.name) THEN WalkInOrder(order, o, gi, Tail(td), fl)
                  ELSE LET rd == ReadDir(fs, d.rel)
                       IN  IF rd.err # "nil" /\ WalkDirResult(CallbackOnError(rd.err)) # "nil"
                           THEN [files |-> fl, err |-> CallbackOnError(rd.err)]
                           ELSE WalkInOrder(order, o, gi,
                                            ChildEntries(d.path, rd.entries) \o Tail(td), fl)
             ELSE LET what == DecideInOrder(order, o, gi, dir, d.path, d.name)
                  IN  IF what = "error" THEN [files |-> fl, err |-> "EREL"]
                      ELSE WalkInOrder(order, o, gi, Tail(td),
                                       IF what = "append" THEN Append(fl, d.path) ELSE fl)

\* What a call with the options argument o returns when its callback
\* applies the filters in the given order.
ScanInOrder(order, o) ==
    LET st == Lstat(fs, dir)
        eo == EffectiveOptions(o)
    IN  IF st.err # "nil"
        THEN [files |-> <<>>, err |-> WalkDirResult(CallbackOnError(st.err))]
        ELSE WalkInOrder(order, eo, LoadGitIgnore(fs, dir, eo),
                         <<Entry(dir, Base(dir), st.kind, st.rel)>>, <<>>)

\* No call is in the middle of its walk.
NoCallUnderWay == \A t \in ScanIds : pc[t] = "call" \/ Done(t)

\* C21: a call returns the slice and the error that it would return with
\* the three filters (hidden file, extension, ignore rules) applied in any
\* of their six orders (compared whenever no call is under way), and on
\* every entry that is not a directory the six orders take the decision
\* the callback takes.
C21_FilterOrderIrrelevant ==
    \A s \in ScanIds :
        /\ Done(s) /\ NoCallUnderWay =>
              \A order \in FilterOrders :
                  LET r == ScanInOrder(order, options[s])
                  IN  files[s] = r.files /\ err[s] = r.err
        /\ pc[s] = "visit" /\ todo[s] # <<>> /\ ~IsDirKind(Head(todo[s]).kind) =>
              \A order \in FilterOrders :
                  DecideInOrder(order, opts[s], gitIgnore[s], dir,
                                Head(todo[s]).path, Head(todo[s]).name)
                      = FileDecision(opts[s], gitIgnore[s], dir,
                                     Head(todo[s]).path, Head(todo[s]).name)

\* C21 witness: a call has returned files from a tree that holds a file
\* failing two filters at once, its extension is not in the list and an
\* ignore rule matches it, so that the orders differ in the filter that
\* rejects it.
C21_Witness ==
    /\ Succeeded(1) /\ files[1] # <<>>
    /\ \E n \in fs.nodes :
          /\ ~IsDirKind(n.kind)
          /\ SkipExtension(opts[1], PathOf(n.rel))
          /\ IgnoreCheck(gitIgnore[1], dir, PathOf(n.rel)) = "skip"

\* The rules of <root>/.gitignore exclude the root-relative path, as call s
\* of the worked example decides it: call 1 by go-gitignore, call 2 by the
\* rules of its own matcher.
RulesExclude(s, relPath) ==
    IF s = 1 THEN MatchesPath(CompileIgnoreLines(RootIgnoreLines), relPath)
    ELSE SomeRuleMatches(RootIgnoreLines, relPath)

\* C22: the root-relative paths a successful call returns are those of the
\* entries that pass the hidden-file and extension tests and that no rule
\* matches by their path relative to the root.  Nothing on the right-hand
\* side mentions the root's own path, so the same tree returns the same
\* root-relative paths whether it is scanned as ., as r or as build (a
\* rule of the ignore file is build/).
C22_RootPathIrrelevant ==
    \A s \in ScanIds :
        Succeeded(s) =>
            RelativeFiles(s) =
                { RelString(m.rel) : m \in { n \in fs.nodes :
                    /\ ~IsDirKind(n.kind)
                    /\ ~SkipHidden(EffectiveOptions(options[s]), Last(n.rel))
                    /\ ~SkipExtension(EffectiveOptions(options[s]), RelString(n.rel))
                    /\ ~(RespectOn(s) /\ RulesExclude(s, RelString(n.rel))) } }

\* C22 witness: the example tree, scanned as build from its parent with the
\* rule build/ respected, has returned a.go from both calls.
C22_Witness ==
    /\ fs.rootName = Build /\ dir = Build
    /\ Succeeded(1) /\ Succeeded(2) /\ RespectOn(1) /\ RespectOn(2)
    /\ LineBuild \in Elements(RootIgnoreLines)
    /\ AGo \in RelativeFiles(1) /\ AGo \in RelativeFiles(2)

\* Rule i of the rules call s has loaded is a directory rule d/ (no
\* leading "!").
IsDirectoryRule(rule) == HasSuffix(rule, <<Slash>>) /\ ~HasPrefix(rule, <<Bang>>)

\* An ancestor directory of the place has base name d or root-relative
\* path d.
AncestorIs(rel, d) ==
    \E k \in 1..(Len(rel) - 1) : rel[k] = d \/ RelString(SubSeq(rel, 1, k)) = d

\* C23 as stated: a rule d/ matches the relative path of a file exactly
\* when an ancestor directory of the file has base name d or root-relative
\* path d; a file whose own name is d is not matched.  (Fails: the rule mk/
\* matches the regular file mk.)
C23_DirectoryRuleMatchesAncestorsOnly ==
    \A s \in ScanIds : \A i \in DOMAIN gitIgnore[s].patterns :
        IsDirectoryRule(gitIgnore[s].patterns[i]) =>
            \A n \in fs.nodes :
                ~IsDirKind(n.kind) =>
                    (MatchesGitignoreRule(RelString(n.rel), gitIgnore[s].patterns[i])
                        <=> AncestorIs(n.rel, TrimSuffix(gitIgnore[s].patterns[i], <<Slash>>)))

\* What the matcher does with a rule d/: it matches when any segment of the
\* path, the file's own name included, is d, or any leading part of the
\* path, the whole path included, is d.
C23_DirectoryRuleMatchesAnySegment ==
    \A s \in ScanIds : \A i \in DOMAIN gitIgnore[s].patterns :
        IsDirectoryRule(gitIgnore[s].patterns[i]) =>
            \A n \in fs.nodes :
                MatchesGitignoreRule(RelString(n.rel), gitIgnore[s].patterns[i])
                    <=> \E k \in 1..Len(n.rel) :
                            \/ n.rel[k] = TrimSuffix(gitIgnore[s].patterns[i], <<Slash>>)
                            \/ RelString(SubSeq(n.rel, 1, k))
                                   = TrimSuffix(gitIgnore[s].patterns[i], <<Slash>>)

\* The rule is a wildcard rule: it holds * or ?, has no trailing slash and
\* no leading "!".
IsWildcardRule(rule) ==
    /\ ContainsChar(rule, Star) \/ ContainsChar(rule, Question)
    /\ ~HasSuffix(rule, <<Slash>>)
    /\ ~HasPrefix(rule, <<Bang>>)

\* The rule glob-matches the full relative path of the place, its base name
\* or the base name of one of its ancestor directories.
GlobMatchesSomewhere(rule, rel) ==
    \/ Match(rule, RelString(rel)).matched
    \/ \E k \in 1..Len(rel) : Match(rule, rel[k]).matched

\* C24 as stated: a rule that holds * or ? matches a relative path iff it
\* glob-matches the full path, the base name or the base name of an
\* ancestor directory, for rules whose only wildcard is ? as for rules with
\* *.  (Fails: the rule ?.go does not match a.go.)
C24_WildcardRuleGlobMatched ==
    \A s \in ScanIds : \A i \in DOMAIN gitIgnore[s].patterns :
        IsWildcardRule(gitIgnore[s].patterns[i]) =>
            \A n \in fs.nodes :
                ~IsDirKind(n.kind) =>
                    (MatchesGitignoreRule(RelString(n.rel), gitIgnore[s].patterns[i])
                        <=> GlobMatchesSomewhere(gitIgnore[s].patterns[i], n.rel))

\* What the matcher does: a rule that holds * is glob-matched as stated; a
\* rule whose only wildcard is ? is compared as plain text with the full
\* path and with each segment.
C24_OnlyStarRulesGlobMatched ==
    \A s \in ScanIds : \A i \in DOMAIN gitIgnore[s].patterns :
        IsWildcardRule(gitIgnore[s].patterns[i]) =>
            \A n \in fs.nodes :
                MatchesGitignoreRule(RelString(n.rel), gitIgnore[s].patterns[i])
                    <=> IF ContainsChar(gitIgnore[s].patterns[i], Star)
                        THEN GlobMatchesSomewhere(gitIgnore[s].patterns[i], n.rel)
                        ELSE \/ gitIgnore[s].patterns[i] = RelString(n.rel)
                             \/ \E k \in 1..Len(n.rel) : gitIgnore[s].patterns[i] = n.rel[k]

\* The rule is a plain rule: no wildcard, no trailing slash, no leading "!".
IsPlainRule(rule) ==
    /\ ~ContainsChar(rule, Star) /\ ~ContainsChar(rule, Question)
    /\ ~HasSuffix(rule, <<Slash>>)
    /\ ~HasPrefix(rule, <<Bang>>)

\* C25: a plain rule among the loaded rules matches the relative path of an
\* entry iff it equals the full relative path or one single segment of it;
\* so a successful call returns no entry that has a segment equal to a
\* loaded plain rule, at any depth.
C25_PlainRuleMatchesPathOrSegment ==
    \A s \in ScanIds : \A i \in DOMAIN gitIgnore[s].patterns :
        IsPlainRule(gitIgnore[s].patterns[i]) =>
            \A n \in fs.nodes :
                /\ MatchesGitignoreRule(RelString(n.rel), gitIgnore[s].patterns[i])
                       <=> \/ gitIgnore[s].patterns[i] = RelString(n.rel)
                           \/ \E k \in 1..Len(n.rel) : gitIgnore[s].patterns[i] = n.rel[k]
                /\ (Succeeded(s) /\ \E k \in 1..Len(n.rel) : gitIgnore[s].patterns[i] = n.rel[k])
                       => PathOf(n.rel) \notin Elements(files[s])

\* C25 witness: with the single rule sub loaded and hidden files included,
\* the root holding .gitignore and sub/b.go, the call has returned
\* .gitignore alone.
C25_Witness ==
    /\ Succeeded(1)
    /\ gitIgnore[1].patterns = <<Sub>>
    /\ \E n \in fs.nodes : n.rel = <<Sub, BGo>>
    /\ files[1] = <<PathOf(<<DotGitignore>>)>>

\* The line is blank: it holds nothing but white space.
IsBlankLine(line) == \A i \in DOMAIN line : line[i] = Space

\* The line is a comment: its first character that is no white space is #.
IsCommentLine(line) ==
    \E i \in DOMAIN line :
        /\ line[i] = Hash
        /\ \A j \in 1..(i - 1) : line[j] = Space

\* One rule per line that is neither blank nor a comment, in file order,
\* each without the white space around it.
RECURSIVE RulesOfLines(_)
RulesOfLines(lines) ==
    IF lines = <<>> THEN <<>>
    ELSE IF IsBlankLine(Head(lines)) \/ IsCommentLine(Head(lines))
         THEN RulesOfLines(Tail(lines))
    ELSE <<TrimSpace(Head(lines))>> \o RulesOfLines(Tail(lines))

\* C26: when <root>/.gitignore can be read and the rules are respected, the
\* loaded rules are, in file order, one rule for each line that is neither
\* blank nor a comment; no loaded rule is empty or starts with #, and a
\* successful call leaves out exactly the entries that one of these rules
\* matches (and the hidden ones), so that comments and blank lines exclude
\* nothing.
C26_OneRulePerRuleLine ==
    \A s \in ScanIds :
        (pc[s] # "call" /\ RespectOn(s) /\ ReadFile(fs, Join(dir, DotGitignore)).err = "nil") =>
            /\ gitIgnore[s].patterns = RulesOfLines(RootIgnoreLines)
            /\ \A i \in DOMAIN gitIgnore[s].patterns :
                   gitIgnore[s].patterns[i] # EmptyStr /\ Head(gitIgnore[s].patterns[i]) # Hash
            /\ Succeeded(s) =>
                   Elements(files[s]) =
                       { PathOf(m.rel) : m \in { n \in fs.nodes :
                           /\ ~IsDirKind(n.kind)
                           /\ ~SkipHidden(EffectiveOptions(options[s]), Last(n.rel))
                           /\ ~SomeRuleMatches(RulesOfLines(RootIgnoreLines), RelString(n.rel)) } }

\* C26 witness: the ignore file holds the rule sub/ twice among a comment,
\* an empty line, a blank line and an indented comment; the two rules are
\* loaded and the call has returned nothing: sub/b.go is excluded and
\* .gitignore is hidden.
C26_Witness ==
    /\ Succeeded(1)
    /\ RootIgnoreLines = Commented(LineSubDir)
    /\ gitIgnore[1].patterns = <<LineSubDir, LineSubDir>>
    /\ \E n \in fs.nodes : n.rel = <<Sub, BGo>>
    /\ files[1] = <<>>

\* The sequences that hold the same rules as often, in any order.
Reorderings(rules) ==
    { [i \in DOMAIN rules |-> rules[p[i]]] :
        p \in { q \in [DOMAIN rules -> DOMAIN rules] :
                  \A i, j \in DOMAIN rules : q[i] = q[j] => i = j } }

UnreadableOutsideGit == \E n \in fs.nodes : n.kind = "baddir" /\ Last(n.rel) # DotGit

\* Call s has visited the entry at the place.
HasVisited(s, rel) == \E i \in DOMAIN visited[s] : visited[s][i].rel = rel

\* C28: on a readable root a call ends with an error iff the tree holds an
\* unreadable directory that is not named .git, whether or not the rules
\* or the hidden-file test exclude every file of that directory; an
\* unreadable .git alone causes no error.  A call that succeeds has visited
\* every entry outside .git directories, those below excluded directories
\* too, and no entry inside a .git directory.
C28_OnlyGitPruned ==
    \A s \in ScanIds :
        Done(s) =>
            /\ err[s] # "nil" <=> UnreadableOutsideGit
            /\ Succeeded(s) =>
                   \A n \in fs.nodes :
                       HasVisited(s, n.rel) <=> ~(\E i \in 1..(Len(n.rel) - 1) : n.rel[i] = DotGit)

\* C28 witness: the root holds an unreadable .git, an unreadable sub and
\* an ignore file with the rule sub/; the call, which respects the rules,
\* has skipped .git and has ended with the error of sub.
C28_Witness ==
    /\ Done(1) /\ err[1] # "nil" /\ RespectOn(1)
    /\ LineSubDir \in Elements(RootIgnoreLines)
    /\ \E n \in fs.nodes : n.rel = <<DotGit>> /\ n.kind = "baddir"
    /\ \E n \in fs.nodes : n.rel = <<Sub>> /\ n.kind = "baddir"
    /\ HasVisited(1, <<DotGit>>) /\ HasVisited(1, <<Sub>>)

\* The filters of call s keep a file of the given name at the root: it is
\* not hidden away, its extension is asked for, and no loaded rule matches
\* it.
KeepsRootFile(s, name) ==
    /\ ~SkipHidden(EffectiveOptions(options[s]), name)
    /\ ~SkipExtension(EffectiveOptions(options[s]), PathOf(<<name>>))
    /\ ~(RespectOn(s) /\ MatchesPath(gitIgnore[s].patterns, name))

\* C29: a successful call returns <root>/.gitignore iff the filters keep
\* it, the same test as for any other file at the root: with IncludeHidden,
\* without RespectGitignore and without an extension list it is returned,
\* as .env is; with RespectGitignore it is returned unless a loaded rule
\* matches it.
C29_IgnoreFileIsOrdinary ==
    \A s \in ScanIds :
        Succeeded(s) =>
            /\ \A n \in fs.nodes :
                   (Len(n.rel) = 1 /\ ~IsDirKind(n.kind)) =>
                       (PathOf(n.rel) \in Elements(files[s]) <=> KeepsRootFile(s, n.rel[1]))
            /\ \A n \in fs.nodes :
                   (/\ n.rel = <<DotGitignore>>
                    /\ EffectiveOptions(options[s]).IncludeHidden
                    /\ EffectiveOptions(options[s]).Extensions = <<>>) =>
                       (PathOf(n.rel) \notin Elements(files[s])
                            <=> RespectOn(s) /\ MatchesPath(gitIgnore[s].patterns, DotGitignore))

\* C29 witness: with hidden files included the call that does not respect
\* the rules has returned .env and .gitignore, and the call that respects
\* them, the ignore file holding the rule .gitignore, has returned .env
\* alone.
C29_Witness ==
    /\ Succeeded(1) /\ Succeeded(2)
    /\ ~RespectOn(1) /\ RespectOn(2)
    /\ DotGitignore \in Elements(RootIgnoreLines)
    /\ files[1] = <<PathOf(<<DotEnv>>), PathOf(<<DotGitignore>>)>>
    /\ files[2] = <<PathOf(<<DotEnv>>)>>

\* The patterns without the malformed ones.
WellFormedPatterns(patterns) == SelectSeq(patterns, LAMBDA p : ~Malformed(p))

\* C30: in the GetSourceList with IncludePatterns a malformed pattern is
\* never the error of a call and selects no file: a call whose patterns
\* are all malformed returns no file, with a nil error when the tree is
\* readable, and a call with malformed and well-formed patterns returns
\* exactly what the well-formed ones select.
C30_MalformedPatternMatchesNothing ==
    \A s \in ScanIds :
        (Done(s) /\ ~options[s].isNil /\ options[s].IncludePatterns # <<>>) =>
            /\ err[s] # "ErrBadPattern"
            /\ WellFormedPatterns(options[s].IncludePatterns) = <<>> =>
                   /\ files[s] = <<>>
                   /\ TreeReadable => err[s] = "nil"
            /\ Succeeded(s) =>
                   Elements(files[s]) =
                       { PathOf(m.rel) : m \in { n \in AllEntries :
                           /\ ~IsDirKind(n.kind)
                           /\ ~InsideGitEntry(n.rel)
                           /\ options[s].IncludeHidden \/ Head(NameOf(n.rel)) # Dot
                           /\ RespectOn(s) =>
                                  ~MatchesPath(gitIgnore[s].patterns, RelString(n.rel))
                           /\ \E i \in DOMAIN WellFormedPatterns(options[s].IncludePatterns) :
                                  MatchFrom(WellFormedPatterns(options[s].IncludePatterns)[i],
                                            1, NameOf(n.rel), 1) } }

\* C30 witness: from a root that holds a.go and ln.go the call with the
\* malformed pattern *[go alone has returned no file and no error, and the
\* call with *[go and ?.go has returned a.go.
C30_Witness ==
    /\ Succeeded(1) /\ Succeeded(2)
    /\ options[1].IncludePatterns = <<PatternBad>>
    /\ options[2].IncludePatterns = <<PatternBad, PatternOneGo>>
    /\ \E n \in fs.nodes : n.rel = <<LnGo>>
    /\ files[1] = <<>>
    /\ files[2] = <<PathOf(<<AGo>>)>>

====
